---- MODULE Spec2Model ----
(***************************************************************************)
(* A model of picaso/climate.py: the radiative-convective equilibrium      *)
(* solver t_start with its helpers (locate, did_grad_cp, lu_decomp,        *)
(* lu_backsubs, mat_sol, check_convergence, growup, growdown).             *)
(*                                                                         *)
(* Floating-point values are modelled as decimal-scaled rationals          *)
(* num/den * 10^exp, exact whenever numerator and denominator fit the      *)
(* machine word and rounded to Prec otherwise (as float64 rounds, at a     *)
(* coarser precision), plus the value NaN.  The functions are compiled     *)
(* with numba (nopython): a scalar float division by zero raises           *)
(* ZeroDivisionError, an out-of-range index is not checked.                *)
(***************************************************************************)
EXTENDS Integers, Sequences, FiniteSets, TLC

VARIABLES
  pc,     \* the operation in progress and its position
  args,   \* the arguments of the call of a helper function
  ret,    \* what the function has returned or left in its arguments
  nstr,   \* the ZoneMap
  hist,   \* the calls made on the ZoneMap, each with the map before it
  par,    \* the arguments of t_start that it only reads, with the flux engine
  \* the local variables of t_start, under their names in the code
  temp, beta, temp_old,
  flux_net_ir, flux_net_ir_layer, flux_net_v, flux_net_v_layer, flux_plus_ir,
  flux_net, flux_net_midpt, flux_net_old, flux_net_midpt_old,
  dflux, f_vec, p, g, A,
  its, n_total, f, f_old, f2, step_max, slope, alamin, alam, alam2, tmplam,
  check, flag_converge, all_profiles,
  jac,       \* the column of the Jacobian being built: the loop variables nz, jm, no
  calls,     \* the number of calls of the flux engine so far
  err,       \* the exception that has left t_start, if any
  past_end,  \* whether the cell after the last level of temp was written
  pressure   \* the pressure array of the call

(***************************************************************************)
(* Numbers                                                                 *)
(***************************************************************************)
\* NaN is the one number with denominator zero
NaN == [num |-> 0, den |-> 0, exp |-> 0]

\* mantissas of the operands of one arithmetic operation are rounded to Prec
Prec == 30000

\* the largest integer TLC computes with
MaxInt == (2 ^ 30 - 1) * 2 + 1

MaxInt10 == MaxInt \div 10

IAbs(i) == IF i < 0 THEN -i ELSE i

ISgn(i) == IF i < 0 THEN -1 ELSE IF i = 0 THEN 0 ELSE 1

RECURSIVE Gcd(_, _)
Gcd(x, y) == IF y = 0 THEN x ELSE Gcd(y, x % y)

Zero == [num |-> 0, den |-> 1, exp |-> 0]

One == [num |-> 1, den |-> 1, exp |-> 0]

ReduceBy(n, d, k) == <<(IF d < 0 THEN -1 ELSE 1) * (n \div k), IAbs(d) \div k>>

\* the fraction n/d in lowest terms, the denominator positive
Reduce(n, d) == ReduceBy(n, d, Gcd(IAbs(n), IAbs(d)))

\* moves the power of ten of r[1]/r[2] * 10^e into the fraction while it fits
RECURSIVE Absorb(_, _)
Absorb(r, e) ==
  IF (e > 0 /\ IAbs(r[1]) <= MaxInt10) \/ (e < 0 /\ r[2] <= MaxInt10)
    THEN Absorb(Reduce(IF e > 0 THEN r[1] * 10 ELSE r[1], IF e > 0 THEN r[2] ELSE r[2] * 10),
                IF e > 0 THEN e - 1 ELSE e + 1)
    ELSE [num |-> r[1], den |-> r[2], exp |-> e]

\* the number n/d * 10^e in canonical form (exp = 0 whenever the fraction fits)
Mk(n, d, e) == IF n = 0 THEN Zero ELSE Absorb(Reduce(n, d), e)

Rat(n, d) == Mk(n, d, 0)

Int2Num(i) == [num |-> i, den |-> 1, exp |-> 0]

Round10(i) == ISgn(i) * ((IAbs(i) + 5) \div 10)

RECURSIVE ShrinkD(_, _, _, _)
ShrinkD(n, d, e, lim) ==
  IF d > lim THEN ShrinkD(n, Round10(d), e - 1, lim) ELSE [num |-> n, den |-> d, exp |-> e]

RECURSIVE ShrinkN(_, _, _, _)
ShrinkN(n, d, e, lim) ==
  IF IAbs(n) > lim THEN ShrinkN(Round10(n), d, e + 1, lim) ELSE ShrinkD(n, d, e, lim)

\* x rounded so that numerator and denominator are at most lim
ShrinkTo(x, lim) == ShrinkN(x.num, x.den, x.exp, lim)

Shrink(x) == ShrinkTo(x, Prec)

IsNaN(x) == x.den = 0

IsZero(x) == x.den # 0 /\ x.num = 0

Neg(x) == IF x.den = 0 THEN NaN ELSE [x EXCEPT !.num = -x.num]

Abs(x) == IF x.den = 0 THEN NaN ELSE [x EXCEPT !.num = IAbs(x.num)]

MulRounded(a, b) == Mk(a.num * b.num, a.den * b.den, a.exp + b.exp)

Mul(x, y) == IF x.den = 0 \/ y.den = 0 THEN NaN ELSE MulRounded(Shrink(x), Shrink(y))

DivRounded(a, b) == Mk(a.num * b.den * ISgn(b.num), a.den * IAbs(b.num), a.exp - b.exp)

\* x / y; the callers test a zero divisor first where the code can divide by
\* zero (ZeroDivisionError), so the value for y = 0 is never used there
Div(x, y) ==
  IF x.den = 0 \/ y.den = 0 \/ y.num = 0 THEN NaN ELSE DivRounded(Shrink(x), Shrink(y))

\* brings hn/hd * 10^(le+k) and ln/ld * 10^le to one exponent:
\* <<hn, ld, ln, u>>, u the number of times hn was multiplied by ten
RECURSIVE Align(_, _, _, _, _)
Align(hn, ld, ln, k, u) ==
  IF k = 0 THEN <<hn, ld, ln, u>>
  ELSE IF IAbs(hn) * 10 <= Prec THEN Align(hn * 10, ld, ln, k - 1, u + 1)
  ELSE IF ld * 10 <= Prec THEN Align(hn, ld * 10, ln, k - 1, u)
  ELSE IF ln = 0 THEN <<hn, ld, 0, u>>
  ELSE Align(hn, ld, Round10(ln), k - 1, u)

AddAligned(hi, al) == Mk(al[1] * al[2] + al[3] * hi.den, hi.den * al[2], hi.exp - al[4])

\* hi + lo, hi the operand with the larger exponent
AddOrdered(hi, lo) == AddAligned(hi, Align(hi.num, lo.den, lo.num, hi.exp - lo.exp, 0))

AddRounded(a, b) ==
  AddOrdered(IF a.exp >= b.exp THEN a ELSE b, IF a.exp >= b.exp THEN b ELSE a)

Add(x, y) ==
  IF x.den = 0 \/ y.den = 0 THEN NaN
  ELSE IF x.num = 0 THEN y
  ELSE IF y.num = 0 THEN x
  ELSE AddRounded(Shrink(x), Shrink(y))

Sub(x, y) == Add(x, Neg(y))

\* the sign of x - y
Cmp(x, y) == ISgn(Sub(x, y).num)

Sign(x) == ISgn(x.num)

\* comparisons; every comparison with NaN is false
Lt(x, y) == x.den # 0 /\ y.den # 0 /\ Cmp(x, y) < 0

Gt(x, y) == Lt(y, x)

Le(x, y) == x.den # 0 /\ y.den # 0 /\ Cmp(x, y) <= 0

Ge(x, y) == Le(y, x)

Eq(x, y) == x.den # 0 /\ y.den # 0 /\ Cmp(x, y) = 0

\* Python's max(a, b), which numba reproduces: b if b > a else a
Max(a, b) == IF Gt(b, a) THEN b ELSE a

RECURSIVE IsqrtBetween(_, _, _)
IsqrtBetween(m, lo, hi) ==
  IF hi - lo <= 1 THEN lo
  ELSE IF ((lo + hi) \div 2) * ((lo + hi) \div 2) <= m
    THEN IsqrtBetween(m, (lo + hi) \div 2, hi)
    ELSE IsqrtBetween(m, lo, (lo + hi) \div 2)

\* floor of the square root of a natural number
Isqrt(m) == IsqrtBetween(m, 0, 46341)

SqrtPrec == Prec \div 10

RECURSIVE SqrtScale(_, _)
SqrtScale(m, s) == IF s < 10000 /\ m <= MaxInt \div (100 * s * s) THEN SqrtScale(m, 10 * s) ELSE s

SqrtScaled(a, m, s) ==
  Mk(Isqrt(m * s * s), a.den * s, (IF a.exp % 2 = 0 THEN a.exp ELSE a.exp - 1) \div 2)

SqrtOfProduct(a, m) == SqrtScaled(a, m, SqrtScale(m, 1))

SqrtRounded(a) == SqrtOfProduct(a, (IF a.exp % 2 = 0 THEN a.num ELSE a.num * 10) * a.den)

SqrtExact(x, r) ==
  IF x.exp = 0 /\ r > 0 /\ r * r = x.num * x.den
    THEN Mk(r, x.den, 0)
    ELSE SqrtRounded(ShrinkTo(x, SqrtPrec))

\* numpy's sqrt: exact on squares of fractions, rounded down otherwise
Sqrt(x) ==
  IF x.den = 0 \/ x.num < 0 THEN NaN
  ELSE IF x.num = 0 THEN Zero
  ELSE SqrtExact(x, IF x.exp = 0 /\ x.num <= MaxInt \div x.den THEN Isqrt(x.num * x.den) ELSE 0)

\* floor of a number, as an integer
Floor(x) ==
  IF x.exp = 0 THEN x.num \div x.den
  ELSE IF x.exp < 0 THEN (IF x.num < 0 THEN -1 ELSE 0)
  ELSE ISgn(x.num) * MaxInt10

RECURSIVE Mantissa(_, _, _)
Mantissa(n, d, k) ==
  IF n >= 10 * d THEN Mantissa(n, d * 10, k + 1)
  ELSE IF n < d THEN Mantissa(n * 10, d, k - 1)
  ELSE <<n, d, k>>

Log10Mantissa(e, m) == Add(Int2Num(e + m[3]), Mk(m[1] - m[2], 9 * m[2], 0))

Log10Rounded(a) == Log10Mantissa(a.exp, Mantissa(a.num, a.den, 0))

\* log10: exact at the powers of ten, linear between two of them
Log10(x) == IF x.den = 0 \/ x.num <= 0 THEN NaN ELSE Log10Rounded(Shrink(x))

Pow10Floor(x, fl) ==
  Mul(Add(One, Mul(Int2Num(9), Sub(x, Int2Num(fl)))), [num |-> 1, den |-> 1, exp |-> fl])

\* 10 ** x, the inverse of Log10
Pow10(x) == IF x.den = 0 THEN NaN ELSE Pow10Floor(x, Floor(x))

(***************************************************************************)
(* Arrays are functions on 0..len-1, matrices functions of functions.      *)
(***************************************************************************)
Length(arr) == Cardinality(DOMAIN arr)

Zeros(len) == [i \in 0..(len - 1) |-> Zero]

(***************************************************************************)
(* locate                                                                  *)
(***************************************************************************)
\* the bisection with > in place of >=
RECURSIVE Bisect_Strict(_, _, _, _)
Bisect_Strict(array, value, jl, ju) ==
  IF ju - jl > 1
    THEN IF Gt(value, array[(ju + jl) \div 2])
           THEN Bisect_Strict(array, value, (ju + jl) \div 2, ju)
           ELSE Bisect_Strict(array, value, jl, (ju + jl) \div 2)
    ELSE jl

RECURSIVE Bisect(_, _, _, _)
Bisect(array, value, jl, ju) ==
  IF ju - jl > 1
    THEN IF Ge(value, array[(ju + jl) \div 2])
           THEN Bisect(array, value, (ju + jl) \div 2, ju)
           ELSE Bisect(array, value, jl, (ju + jl) \div 2)
    ELSE jl

locate(array, value) ==
  IF Le(value, array[0]) THEN 0
  ELSE IF Ge(value, array[Length(array) - 1]) THEN Length(array) - 1
  ELSE Bisect(array, value, 0, Length(array))

(***************************************************************************)
(* did_grad_cp and the lapse table                                         *)
(***************************************************************************)
NT_TABLE == 53

NP_TABLE == 26

\* a table with strictly ascending axes and pairwise different node values
t_table == [i \in 0..(NT_TABLE - 1) |-> Rat(20 + i + (i \div 10), 20)]

p_table == [k \in 0..(NP_TABLE - 1) |-> Rat(k + (k \div 5) - 12, 4)]

grad == [i \in 0..(NT_TABLE - 1) |-> [k \in 0..(NP_TABLE - 1) |-> Rat(26 * i + k + 1, 4000)]]

cp == [i \in 0..(NT_TABLE - 1) |-> [k \in 0..(NP_TABLE - 1) |-> Rat(3000 + 26 * i + k, 1000)]]

\* a blend factor that follows the line of the last interval past the last node
AxisFactor_Extrapolating(table, value_log, pos0, last, len) ==
  IF pos0 = 0 THEN Zero
  ELSE IF pos0 = last
    THEN Div(Add(Neg(table[last - 1]), value_log), Sub(table[last], table[last - 1]))
  ELSE Div(Add(Neg(table[pos0]), value_log), Sub(table[pos0 + 1], table[pos0]))

\* the blend factor on one axis, pos0 being what locate returned; last = 25 or 52
\* and len = 26 or 53 are the literals of the code.  The factor stays unassigned
\* (NaN here) where no branch assigns it.
AxisFactor(table, value_log, pos0, last, len) ==
  IF pos0 = 0 THEN Zero
  ELSE IF pos0 = last THEN One
  ELSE IF pos0 > 0 /\ pos0 < len
    THEN Div(Add(Neg(table[pos0]), value_log), Sub(table[pos0 + 1], table[pos0]))
  ELSE NaN

\* the lower corner of the cell used on one axis
\* the lower corner without the step back from the last node
AxisPos_NoStepBack(pos0, last) == IF pos0 = last THEN last - 2 ELSE pos0

AxisPos(pos0, last) == IF pos0 = last THEN last - 1 ELSE pos0

BlendWeights(ft, fp, omt, omp, tb, pos_t, pos_p) ==
  Add(Add(Add(Mul(Mul(omt, omp), tb[pos_t][pos_p]),
              Mul(Mul(ft, omp), tb[pos_t + 1][pos_p])),
          Mul(Mul(ft, fp), tb[pos_t + 1][pos_p + 1])),
      Mul(Mul(omt, fp), tb[pos_t][pos_p + 1]))

\* the bilinear blend of the four corners of the cell, for the two tables
Blend(ft, fp, gr, c, pos_t, pos_p) ==
  [tb \in {"grad", "cp"} |->
     BlendWeights(ft, fp, Sub(One, ft), Sub(One, fp), IF tb = "grad" THEN gr ELSE c, pos_t, pos_p)]

GradCp(bl, factkt, factkp, pos_t, pos_p) ==
  [grad_x |-> bl["grad"], cp_x |-> Pow10(bl["cp"]),
   factkt |-> factkt, factkp |-> factkp, pos_t |-> pos_t, pos_p |-> pos_p]

Interpolate(gr, c, factkt, factkp, pos_t, pos_p) ==
  GradCp(Blend(factkt, factkp, gr, c, pos_t, pos_p), factkt, factkp, pos_t, pos_p)

Located(tt, pt, gr, c, temp_log, pres_log, pos_t0, pos_p0) ==
  Interpolate(gr, c, AxisFactor(tt, temp_log, pos_t0, 52, 53),
              AxisFactor(pt, pres_log, pos_p0, 25, 26),
              AxisPos(pos_t0, 52), AxisPos(pos_p0, 25))

LogLocated(tt, pt, gr, c, temp_log, pres_log) ==
  Located(tt, pt, gr, c, temp_log, pres_log, locate(tt, temp_log), locate(pt, pres_log))

\* [grad_x, cp_x] as the code returns them, with the factors and the cell used
did_grad_cp(t, press, tt, pt, gr, c) == LogLocated(tt, pt, gr, c, Log10(t), Log10(press))

(***************************************************************************)
(* growup, growdown                                                        *)
(***************************************************************************)
\* growup moving the bottom of the zone instead of its top
growup_Bottom(nlv, zmap, ngrow) ==
  [zmap EXCEPT ![3 + 3 * (nlv - 1) - 1] = zmap[3 + 3 * (nlv - 1) - 1] - 1 * ngrow]

growup(nlv, zmap, ngrow) ==
  [zmap EXCEPT ![2 + 3 * (nlv - 1) - 1] = zmap[2 + 3 * (nlv - 1) - 1] - 1 * ngrow]

\* growdown moving the bottom of the zone only
growdown_BottomOnly(nlv, zmap, ngrow) ==
  [zmap EXCEPT ![3 + 3 * (nlv - 1) - 1] = zmap[3 + 3 * (nlv - 1) - 1] + 1 * ngrow]

growdown(nlv, zmap, ngrow) ==
  [zmap EXCEPT ![3 + 3 * (nlv - 1) - 1] = zmap[3 + 3 * (nlv - 1) - 1] + 1 * ngrow,
               ![3 + 3 * (nlv - 1) - 1 + 1] = zmap[3 + 3 * (nlv - 1) - 1 + 1] + 1 * ngrow]

(***************************************************************************)
(* lu_decomp, lu_backsubs, mat_sol                                         *)
(***************************************************************************)
TINY == [num |-> 1, den |-> 1000000000, exp |-> -11]

\* imax before its first assignment
Unassigned == -1

\* the largest entry of a row, signs kept
RECURSIVE RowMax_Signed(_, _, _, _, _)
RowMax_Signed(a, i, j, n, aamax) ==
  IF j >= n THEN aamax
  ELSE RowMax_Signed(a, i, j + 1, n, IF Gt(a[i][j], aamax) THEN a[i][j] ELSE aamax)

\* the largest magnitude of a row
RECURSIVE RowMax(_, _, _, _, _)
RowMax(a, i, j, n, aamax) ==
  IF j >= n THEN aamax
  ELSE RowMax(a, i, j + 1, n, IF Gt(Abs(a[i][j]), aamax) THEN Abs(a[i][j]) ELSE aamax)

\* the row scan: [raised, vv]
RECURSIVE ScanRows(_, _, _, _)
RECURSIVE ScanRow(_, _, _, _, _)
ScanRow(a, i, n, vv, aamax) ==
  IF IsZero(aamax)
    THEN [raised |-> TRUE, vv |-> vv]
    ELSE ScanRows(a, i + 1, n, [vv EXCEPT ![i] = Div(One, aamax)])

ScanRows(a, i, n, vv) ==
  IF i >= n THEN [raised |-> FALSE, vv |-> vv]
  ELSE ScanRow(a, i, n, vv, RowMax(a, i, 0, n, Zero))

\* sum - a[i,k]*a[k,j] for k in range(k, kend)
RECURSIVE SubDot(_, _, _, _, _, _)
SubDot(a, i, j, k, kend, sum) ==
  IF k >= kend THEN sum
  ELSE SubDot(a, i, j, k + 1, kend, Sub(sum, Mul(a[i][k], a[k][j])))

RECURSIVE UpperColumn(_, _, _)
UpperColumn(a, i, j) ==
  IF i >= j THEN a
  ELSE UpperColumn([a EXCEPT ![i][j] = SubDot(a, i, j, 0, i, a[i][j])], i + 1, j)

\* the pivot search down column j: [a, imax]
RECURSIVE LowerColumn(_, _, _, _, _, _, _)
RECURSIVE LowerPick(_, _, _, _, _, _, _, _, _)
RECURSIVE LowerSum(_, _, _, _, _, _, _, _)
LowerPick(a, vv, i, j, n, aamax, imax, dum, better) ==
  LowerColumn(a, vv, i + 1, j, n, IF better THEN dum ELSE aamax, IF better THEN i ELSE imax)

LowerSum(a, vv, i, j, n, aamax, imax, sum) ==
  LowerPick([a EXCEPT ![i][j] = sum], vv, i, j, n, aamax, imax,
            Mul(vv[i], Abs(sum)), Ge(Mul(vv[i], Abs(sum)), aamax))

LowerColumn(a, vv, i, j, n, aamax, imax) ==
  IF i >= n THEN [a |-> a, imax |-> imax]
  ELSE LowerSum(a, vv, i, j, n, aamax, imax, SubDot(a, i, j, 0, j, a[i][j]))

\* the pivot row recorded but not exchanged
SwapRows_Skipped(a, imax, j, n) == a

SwapRows(a, imax, j, n) ==
  [a EXCEPT ![imax] = [k \in DOMAIN a[imax] |-> IF k < n THEN a[j][k] ELSE a[imax][k]],
            ![j] = [k \in DOMAIN a[j] |-> IF k < n THEN a[imax][k] ELSE a[j][k]]]

RECURSIVE ScaleColumn(_, _, _, _, _)
ScaleColumn(a, i, j, n, dum) ==
  IF i >= n THEN a
  ELSE ScaleColumn([a EXCEPT ![i][j] = Mul(a[i][j], dum)], i + 1, j, n, dum)

\* a[j,j] replaced by TINY when it is zero
Pivoted(a, j) == IF IsZero(a[j][j]) THEN [a EXCEPT ![j][j] = TINY] ELSE a

\* the column below the pivot divided by it
Scaled(a, j, n) == IF j # n - 1 THEN ScaleColumn(a, j + 1, j, n, Div(One, a[j][j])) ELSE a

\* the column j once its pivot row imax is known; s = [status, a, vv, indx, imax]
PivotColumn(s, a, imax, j, n) ==
  [status |-> "ok",
   a |-> Scaled(Pivoted(IF j # imax THEN SwapRows(a, imax, j, n) ELSE a, j), j, n),
   vv |-> IF j # imax THEN [s.vv EXCEPT ![imax] = s.vv[j]] ELSE s.vv,
   indx |-> [s.indx EXCEPT ![j] = imax],
   imax |-> imax]

Column(s, lo, j, n) ==
  IF lo.imax = Unassigned
    THEN [s EXCEPT !.status = "undefined", !.a = lo.a]
    ELSE PivotColumn(s, lo.a, lo.imax, j, n)

\* the loop over the columns
RECURSIVE Columns(_, _, _)
Columns(s, j, n) ==
  IF j >= n \/ s.status # "ok" THEN s
  ELSE Columns(Column(s, LowerColumn(UpperColumn(s.a, 0, j), s.vv, j, j, n, Zero, s.imax), j, n),
               j + 1, n)

Decomposed(s) == [status |-> s.status, a |-> s.a, indx |-> s.indx]

Scanned(a, n, sc) ==
  IF sc.raised
    THEN [status |-> "singular", a |-> a, indx |-> [i \in 0..(n - 1) |-> 0]]
    ELSE Decomposed(Columns([status |-> "ok", a |-> a, vv |-> sc.vv,
                             indx |-> [i \in 0..(n - 1) |-> 0], imax |-> Unassigned], 0, n))

\* [status, a, indx]: status "ok", "singular" (ValueError raised) or "undefined"
\* (imax read before any assignment: every pivot candidate of the first column NaN)
lu_decomp(a, n, ntot) == Scanned(a, n, ScanRows(a, 0, n, Zeros(n)))

\* sum - a[i,j]*b[j] for j in range(j, jend)
RECURSIVE SubDotB(_, _, _, _, _, _)
SubDotB(a, b, i, j, jend, sum) ==
  IF j >= jend THEN sum
  ELSE SubDotB(a, b, i, j + 1, jend, Sub(sum, Mul(a[i][j], b[j])))

RECURSIVE ForwardSubs(_, _, _, _, _, _)
ForwardSubs(a, n, indx, b, i, ii) ==
  IF i >= n THEN b
  ELSE ForwardSubs(a, n, indx,
                   [b EXCEPT ![indx[i]] = b[i],
                             ![i] = IF ii # -1
                                      THEN SubDotB(a, [b EXCEPT ![indx[i]] = b[i]], i, ii, i, b[indx[i]])
                                      ELSE b[indx[i]]],
                   i + 1,
                   IF ii # -1 THEN ii ELSE IF ~IsZero(b[indx[i]]) THEN i ELSE ii)

RECURSIVE BackSubs(_, _, _, _)
BackSubs(a, n, b, i) ==
  IF i < 0 THEN b
  ELSE BackSubs(a, n, [b EXCEPT ![i] = Div(SubDotB(a, b, i, i + 1, n, b[i]), a[i][i])], i - 1)

lu_backsubs(a, n, ntot, indx, b) ==
  BackSubs(a, n, ForwardSubs(a, n, indx, b, 0, -1), n - 1)

Solved(lu, nlevel, nstrat, rhs) ==
  [status |-> lu.status, a |-> lu.a,
   b |-> IF lu.status = "ok" THEN lu_backsubs(lu.a, nstrat, nlevel, lu.indx, rhs) ELSE rhs]

\* [status, a, b]
mat_sol(a, nlevel, nstrat, rhs) == Solved(lu_decomp(a, nstrat, nlevel), nlevel, nstrat, rhs)

(***************************************************************************)
(* The flux engine (climate): a stand-in that is a function of the         *)
(* temperature profile alone.  The thermal net flux of level k is          *)
(*   sum over j of M[k][j] * phi(T[j])  -  off[k]                          *)
(* with phi, chosen per level k, the identity ("linear"), (T - ref)^2      *)
(* ("square"), |T - ref| ("abs"), or the identity up to ref and NaN above  *)
(* it ("nan"); a level does not depend on T[j] where M[k][j] = 0.  The net *)
(* flux of layer k is that of level k+1.  The upward flux returned is the  *)
(* profile itself, which tells the calls apart.  An engine may further     *)
(* answer one profile (at) with thermal net fluxes of its own (lev).       *)
(***************************************************************************)
PhiOf(kind, t, d) ==
  IF kind = "square" THEN Mul(d, d)
  ELSE IF kind = "abs" THEN Abs(d)
  ELSE IF kind = "nan" /\ d.den # 0 /\ d.num > 0 THEN NaN
  ELSE t

Phi(e, k, t) == PhiOf(e.phi[k], t, Sub(t, e.ref))

RECURSIVE RowFlux(_, _, _, _, _, _)
RowFlux(e, tp, k, j, n, acc) ==
  IF j >= n THEN acc
  ELSE RowFlux(e, tp, k, j + 1, n,
               IF e.M[k][j] = 0 THEN acc ELSE Add(acc, Mul(Int2Num(e.M[k][j]), Phi(e, k, tp[j]))))

LevelFlux(e, tp, k, n) == Sub(RowFlux(e, tp, k, 0, n, Zero), e.off[k])

Fluxes(e, tp, n, reflected, lev) ==
  [net_ir |-> lev,
   net_ir_layer |-> [k \in 0..(n - 1) |-> lev[IF k + 1 < n THEN k + 1 ELSE k]],
   plus_ir |-> tp,
   net_v |-> [k \in 0..(n - 1) |-> IF reflected THEN e.vis ELSE Zero],
   net_v_layer |-> [k \in 0..(n - 1) |-> IF reflected THEN e.vis ELSE Zero]]

\* the eight arrays climate returns, reduced to those t_start reads
climate(e, tp, n, reflected) ==
  Fluxes(e, tp, n, reflected,
         IF tp = e.at THEN e.lev ELSE [k \in 0..(n - 1) |-> LevelFlux(e, tp, k, n)])

(***************************************************************************)
(* t_start                                                                 *)
(***************************************************************************)
eps == Rat(1, 10000)

step_max0 == Rat(1, 100)

alf == Rat(1, 10000)

tolmin == Rat(1, 100000)

tolf == Rat(5, 1000)

tolx == tolf

Half == Rat(1, 2)

Tenth == Rat(1, 10)

Hundredth == Rat(1, 100)

Two == Int2Num(2)

Three == Int2Num(3)

n_top_r == nstr[0] - 1

\* rfaci * ir + rfacv * v + tidal, element by element
NetFlux(rfaci, ir, rfacv, v, tidal) ==
  [i \in DOMAIN ir |-> Add(Add(Mul(rfaci, ir[i]), Mul(rfacv, v[i])), tidal[i])]

\* the lapse rates of the returned profile; "raise" where a layer has the same
\* pressure at both ends
LapseDen(pr, j) == Sub(Log10(pr[j]), Log10(pr[j + 1]))

Lapse(tp, pr, n) ==
  [j \in 0..(n - 2) |-> Div(Sub(Log10(tp[j]), Log10(tp[j + 1])), LapseDen(pr, j))]

LapseRaises(pr, n) == \E j \in 0..(n - 2) : IsZero(LapseDen(pr, j))

\* one entry of the residual: dflux[k] = f_vec[k] = v, with the sums and the maximum
Entry(s, k, v, t) ==
  [dflux |-> [s.dflux EXCEPT ![k] = v],
   f_vec |-> [s.f_vec EXCEPT ![k] = v],
   sum |-> Add(s.sum, Mul(v, v)),
   sum_1 |-> Add(s.sum_1, Mul(t, t)),
   test |-> IF Gt(Abs(v), s.test) THEN Abs(v) ELSE s.test,
   n_total |-> s.n_total + 1]

RECURSIVE ResidualLevels(_, _, _, _, _, _)
ResidualLevels(s, j, n_strt_a, nao, fmid, tp) ==
  IF j > n_strt_a THEN s
  ELSE ResidualLevels(Entry(s, j - nao, fmid[j - 1], tp[j - nao]), j + 1, n_strt_a, nao, fmid, tp)

ResidualTop(s, zmap, nca, fnet, tp) ==
  IF zmap[nca] = (zmap[0] - 1) + 1 THEN Entry(s, 0, fnet[(zmap[0] - 1) + 1], tp[0]) ELSE s

\* the loop over the radiative zones that fills dflux and f_vec; nao is negative
\* only before the first zone, where the code uses 0 in its place
RECURSIVE Residuals(_, _, _, _, _, _, _, _)
Residuals(s, zmap, nca, nofczns, nao, fnet, fmid, tp) ==
  IF nca >= 3 * nofczns THEN s
  ELSE Residuals(ResidualLevels(ResidualTop(s, zmap, nca, fnet, tp), zmap[nca] + 1, zmap[nca + 1],
                                IF nca = 0 /\ nao < 0 THEN 0 ELSE nao, fmid, tp),
                 zmap, nca + 3, nofczns, nao + (zmap[nca + 2] + 1) - zmap[nca + 1], fnet, fmid, tp)

NoColumn == [done |-> TRUE, nz |-> 0, jm |-> 0, no |-> 0]

\* the column of the Jacobian at or after level jm of zone nz, with the offset no
RECURSIVE ColumnAt(_, _, _, _, _)
ColumnAt(zmap, nofczns, nz, jm, no) ==
  IF nz >= 3 * nofczns THEN NoColumn
  ELSE IF jm <= zmap[nz + 1] THEN [done |-> FALSE, nz |-> nz, jm |-> jm, no |-> no]
  ELSE IF nz + 3 >= 3 * nofczns THEN NoColumn
  ELSE ColumnAt(zmap, nofczns, nz + 3, zmap[nz + 3] + 1,
                (IF nz = 0 /\ zmap[0] - 1 < 0 THEN zmap[0] - 1 ELSE no)
                  + (zmap[nz + 2] + 1) - zmap[nz + 1])

FirstColumn(zmap, nofczns) ==
  ColumnAt(zmap, nofczns, 0, zmap[0], IF zmap[0] - 1 < 0 THEN 0 ELSE zmap[0] - 1)

\* what t_start returns: temp, dtdp, flag_converge, a net flux, flux_plus_ir[0,:]
\* and all_profiles
Returned(line, tp, flag, flux, plus, profiles) ==
  [line |-> line, temp |-> tp, dtdp |-> Lapse(tp, pressure, par.nlevel),
   flag_converge |-> flag, flux |-> flux, flux_plus_ir |-> plus, all_profiles |-> profiles]

NoReturn == <<>>

\* the state at the call of t_start
InitTStart ==
  /\ pc = "start"
  /\ args = <<>>
  /\ ret = NoReturn
  /\ hist = <<>>
  /\ nstr = par.nstr
  /\ temp = par.temp
  /\ beta = Zeros(par.nlevel)
  /\ temp_old = Zeros(par.nlevel)
  /\ flux_net_ir = Zeros(par.nlevel)
  /\ flux_net_ir_layer = Zeros(par.nlevel)
  /\ flux_net_v = Zeros(par.nlevel)
  /\ flux_net_v_layer = Zeros(par.nlevel)
  /\ flux_plus_ir = Zeros(par.nlevel)
  /\ flux_net = Zeros(par.nlevel)
  /\ flux_net_midpt = Zeros(par.nlevel)
  /\ flux_net_old = Zeros(par.nlevel)
  /\ flux_net_midpt_old = Zeros(par.nlevel)
  /\ dflux = Zeros(par.nlevel)
  /\ f_vec = Zeros(par.nlevel)
  /\ p = Zeros(par.nlevel)
  /\ g = Zeros(par.nlevel)
  /\ A = [i \in 0..(par.nlevel - 1) |-> Zeros(par.nlevel)]
  /\ its = 0
  /\ n_total = 0
  /\ f = Zero
  /\ f_old = Zero
  /\ f2 = Zero
  /\ step_max = step_max0
  /\ slope = Zero
  /\ alamin = Zero
  /\ alam = Zero
  /\ alam2 = Zero
  /\ tmplam = Zero
  /\ check = FALSE
  /\ flag_converge = 0
  /\ all_profiles = par.all_profiles
  /\ jac = NoColumn
  /\ calls = 0
  /\ err = "none"
  /\ past_end = "untouched"
  /\ pressure = par.pressure

lineVars == <<f_old, f2, slope, alamin, alam, alam2, tmplam, check>>

fluxVars == <<flux_net_ir, flux_net_ir_layer, flux_plus_ir>>

inputVars == <<args, hist, nstr, par, pressure, flux_net_v, flux_net_v_layer>>

\* the thermal fluxes taken from what climate returned
Extract(fl) ==
  /\ flux_net_ir_layer' = fl.net_ir_layer
  /\ flux_net_ir' = fl.net_ir
  /\ flux_plus_ir' = fl.plus_ir

\* the calls of the flux engine that are counted
MaxCalls == 40

\* the count after k more calls of the flux engine, held at MaxCalls
Counted(k) == IF calls + k > MaxCalls THEN MaxCalls ELSE calls + k

\* the visible fluxes, taken once
ExtractVisible(fl) ==
  /\ flux_net_v_layer' = fl.net_v_layer
  /\ flux_net_v' = fl.net_v
  /\ Extract(fl)

\* the first call of the flux engine, reflected and thermal, and the work arrays
BaseFlux ==
  /\ pc = "start"
  /\ ExtractVisible(climate(par.engine, temp, par.nlevel, TRUE))
  /\ calls' = Counted(1)
  /\ step_max' = step_max0
  /\ alam2' = Zero
  /\ flux_net' = Zeros(par.nlevel)
  /\ flux_net_midpt' = Zeros(par.nlevel)
  /\ dflux' = Zeros(par.nlevel)
  /\ f_vec' = Zeros(par.nlevel)
  /\ p' = Zeros(par.nlevel)
  /\ g' = Zeros(par.nlevel)
  /\ A' = [i \in 0..(par.nlevel - 1) |-> Zeros(par.nlevel)]
  /\ pc' = IF par.it_max > 0 THEN "iter_top" ELSE "exhausted"
  /\ UNCHANGED <<args, hist, nstr, par, pressure, ret, temp, beta, temp_old, flux_net_old,
                 flux_net_midpt_old, its, n_total, f, f_old, f2, slope, alamin, alam, tmplam,
                 check, flag_converge, all_profiles, jac, err, past_end>>

\* leaving t_start with an exception
Raise(e) == pc' = "raised" /\ err' = e

\* the end of the residual assembly: the test for a root, then the step limit
Assembled(s) ==
  /\ dflux' = s.dflux
  /\ f_vec' = s.f_vec
  /\ n_total' = s.n_total
  /\ f' = Mul(Half, s.sum)
  /\ IF IsZero(Abs(par.tidal[0]))
       THEN /\ Raise("ZeroDivisionError")
            /\ UNCHANGED <<ret, flag_converge, step_max, jac>>
     ELSE IF Lt(Div(s.test, Abs(par.tidal[0])), Mul(Hundredth, tolf))
       THEN IF LapseRaises(pressure, par.nlevel)
              THEN /\ Raise("ZeroDivisionError")
                   /\ flag_converge' = 2
                   /\ UNCHANGED <<ret, step_max, jac>>
              ELSE /\ pc' = "returned"
                   /\ flag_converge' = 2
                   /\ ret' = Returned(561, temp, 2, flux_net_ir, flux_plus_ir, all_profiles)
                   /\ UNCHANGED <<err, step_max, jac>>
     ELSE /\ step_max' = Mul(step_max, Max(Sqrt(s.sum_1), Int2Num(s.n_total)))
          /\ jac' = FirstColumn(nstr, par.nofczns)
          /\ pc' = IF jac'.done THEN "solve" ELSE "jacobian"
          /\ UNCHANGED <<ret, flag_converge, err>>

\* the top of one outer iteration: total fluxes, snapshots, residual, root test
IterTop ==
  /\ pc = "iter_top"
  /\ flux_net' = NetFlux(par.rfaci, flux_net_ir, par.rfacv, flux_net_v, par.tidal)
  /\ flux_net_midpt' = NetFlux(par.rfaci, flux_net_ir_layer, par.rfacv, flux_net_v_layer, par.tidal)
  /\ beta' = temp
  /\ temp_old' = temp
  /\ flux_net_old' = flux_net_ir
  /\ flux_net_midpt_old' = flux_net_ir_layer
  /\ Assembled(Residuals([dflux |-> dflux, f_vec |-> f_vec, sum |-> Zero, sum_1 |-> Zero,
                          test |-> Zero, n_total |-> 0],
                         nstr, 0, par.nofczns, n_top_r, flux_net', flux_net_midpt', temp))
  /\ UNCHANGED <<inputVars, fluxVars, lineVars, temp, p, g, A, its, all_profiles, calls, past_end>>

\* one level of a convective zone: the adiabat from the level above, with the
\* gradient taken at the temperature tgrad
Adiabat(tprev, tgrad, pr, j1) ==
  Pow10(Add(Log10(tprev),
            Mul(did_grad_cp(tgrad, Sqrt(Mul(pr[j1 - 1], pr[j1])),
                            t_table, p_table, grad, cp).grad_x,
                Sub(Log10(pr[j1]), Log10(pr[j1 - 1])))))

\* for j1 in range(j1, n_bot + 1); the gradient is taken at src[j1-1] in the
\* Jacobian (fromSrc) and at temp[j1-1] in the line search
RECURSIVE ConvectiveLevels(_, _, _, _, _, _)
ConvectiveLevels(tp, src, j1, n_bot, fromSrc, pr) ==
  IF j1 > n_bot THEN tp
  ELSE ConvectiveLevels([tp EXCEPT ![j1] = Adiabat(tp[j1 - 1],
                                                   IF fromSrc THEN src[j1 - 1] ELSE tp[j1 - 1],
                                                   pr, j1)],
                        src, j1 + 1, n_bot, fromSrc, pr)

\* a radiative level: beta[j] in the Jacobian (fromSrc), beta[j] + alam * p[j - ndo]
\* in the line search
RadiativeLevel(src, al, pv, j, ndo, fromSrc) ==
  IF fromSrc THEN src[j] ELSE Add(src[j], Mul(al, pv[j - ndo]))

\* the profile rebuilt zone by zone: the radiative levels first, the convective
\* levels below them along the adiabat
RECURSIVE Rebuild(_, _, _, _, _, _, _, _, _, _)
Rebuild(tp, zmap, nb, nofczns, ndo, src, al, pv, fromSrc, pr) ==
  IF nb >= 3 * nofczns THEN tp
  ELSE Rebuild(ConvectiveLevels([j \in DOMAIN tp |->
                                   IF j >= zmap[nb] + (IF nb = 0 THEN 0 ELSE 1) /\ j <= zmap[nb + 1]
                                     THEN RadiativeLevel(src, al, pv, j,
                                                         IF nb = 0 /\ ndo < 0 THEN 0 ELSE ndo, fromSrc)
                                     ELSE tp[j]],
                                src, zmap[nb + 1] + 1, zmap[nb + 2] + 1, fromSrc, pr),
               zmap, nb + 3, nofczns, ndo + (zmap[nb + 2] + 1) - zmap[nb + 1],
               src, al, pv, fromSrc, pr)

JacEntry(new, old, del_t) == Div(Sub(new, old), del_t)

\* for im in range(im, n_strt_c)
RECURSIVE FillLayers(_, _, _, _, _, _, _, _)
FillLayers(a, im, n_strt_c, nco, col, layer, layer_old, del_t) ==
  IF im >= n_strt_c THEN a
  ELSE FillLayers([a EXCEPT ![im + 1 - nco][col] = JacEntry(layer[im], layer_old[im], del_t)],
                  im + 1, n_strt_c, nco, col, layer, layer_old, del_t)

\* the first row of a zone: the level flux at the top of the atmosphere, the
\* layer flux above the zone otherwise
FillTop(a, zmap, n_top_c, nco, col, level, layer, level_old, layer_old, del_t) ==
  IF n_top_c = (zmap[0] - 1) + 1
    THEN [a EXCEPT ![n_top_c - nco][col] = JacEntry(level[n_top_c], level_old[n_top_c], del_t)]
    ELSE [a EXCEPT ![n_top_c - nco][col] =
            JacEntry(layer[n_top_c - 1], layer_old[n_top_c - 1], del_t)]

\* one column of the Jacobian, zone by zone
RECURSIVE FillColumn(_, _, _, _, _, _, _, _, _, _, _)
FillColumn(a, zmap, nc, nofczns, nco, col, level, layer, level_old, layer_old, del_t) ==
  IF nc >= 3 * nofczns THEN a
  ELSE FillColumn(FillLayers(FillTop(a, zmap, zmap[nc] + (IF nc = 0 THEN 0 ELSE 1),
                                     IF nc = 0 /\ nco < 0 THEN 0 ELSE nco, col,
                                     level, layer, level_old, layer_old, del_t),
                             zmap[nc] + (IF nc = 0 THEN 0 ELSE 1), zmap[nc + 1],
                             IF nc = 0 /\ nco < 0 THEN 0 ELSE nco, col, layer, layer_old, del_t),
                  zmap, nc + 3, nofczns, nco + (zmap[nc + 2] + 1) - zmap[nc + 1], col,
                  level, layer, level_old, layer_old, del_t)

FluxCalls == IF par.do_holes THEN 2 ELSE 1

Perturbed(del_t, beta1) ==
  /\ temp' = Rebuild(temp, nstr, 0, par.nofczns, n_top_r, beta1, alam, p, TRUE, pressure)
  /\ Extract(climate(par.engine, temp', par.nlevel, FALSE))
  /\ calls' = Counted(FluxCalls)
  /\ A' = FillColumn(A, nstr, 0, par.nofczns, n_top_r, jac.jm - jac.no, flux_net_ir',
                     flux_net_ir_layer', flux_net_old, flux_net_midpt_old, del_t)
  /\ beta' = [beta1 EXCEPT ![jac.jm] = Sub(beta1[jac.jm], del_t)]

\* one column of the Jacobian: level jm perturbed, the profile rebuilt, the
\* thermal fluxes recomputed, the column filled, the perturbation undone
JacobianColumn ==
  /\ pc = "jacobian"
  /\ Perturbed(Max(Mul(eps, temp_old[jac.jm]), Three),
               [beta EXCEPT ![jac.jm] = Add(beta[jac.jm], Max(Mul(eps, temp_old[jac.jm]), Three))])
  /\ jac' = ColumnAt(nstr, par.nofczns, jac.nz, jac.jm + 1, jac.no)
  /\ pc' = IF jac'.done THEN "solve" ELSE "jacobian"
  /\ UNCHANGED <<inputVars, lineVars, ret, temp_old, flux_net, flux_net_midpt, flux_net_old,
                 flux_net_midpt_old, dflux, f_vec, p, g, its, n_total, f, step_max,
                 flag_converge, all_profiles, err, past_end>>

\* sum over j in range(j, n) of a[j,i] * v[j]
RECURSIVE ColDot(_, _, _, _, _, _)
ColDot(a, v, i, j, n, acc) ==
  IF j >= n THEN acc ELSE ColDot(a, v, i, j + 1, n, Add(acc, Mul(a[j][i], v[j])))

\* sum over i in range(i, n) of u[i] * v[i]
RECURSIVE Dot(_, _, _, _, _)
Dot(u, v, i, n, acc) == IF i >= n THEN acc ELSE Dot(u, v, i + 1, n, Add(acc, Mul(u[i], v[i])))

Larger(tmp, test) == IF Gt(tmp, test) THEN tmp ELSE test

\* the largest abs(pv[i]) / told[i]
RECURSIVE MaxRel(_, _, _, _, _)
MaxRel(pv, told, i, n, test) ==
  IF i >= n THEN test ELSE MaxRel(pv, told, i + 1, n, Larger(Div(Abs(pv[i]), told[i]), test))

DividesByZero(told, n) == \E i \in 0..(n - 1) : IsZero(told[i])

\* the end of the step computation: the smallest step length, and the line
\* search set up
Limited(test) ==
  IF DividesByZero(temp_old, n_total) \/ IsZero(test)
    THEN /\ Raise("ZeroDivisionError")
         /\ UNCHANGED <<alamin, alam, f2, flag_converge>>
    ELSE /\ alamin' = Div(tolx, test)
         /\ alam' = One
         /\ f2' = f
         /\ flag_converge' = 0
         /\ pc' = "trial_update"
         /\ err' = err

\* the step scaled down to step_max where it is longer (its first two entries
\* are left out of the length)
Stepped(b, sum) ==
  /\ p' = IF Gt(sum, step_max)
            THEN [i \in DOMAIN b |-> IF i < n_total THEN Mul(b[i], Div(step_max, sum)) ELSE b[i]]
            ELSE b
  /\ dflux' = IF Gt(sum, step_max)
                THEN [i \in DOMAIN dflux |-> IF i < n_total THEN Neg(p'[i]) ELSE dflux[i]]
                ELSE dflux
  /\ check' = FALSE
  /\ slope' = Dot(g', p', 0, n_total, Zero)
  /\ Limited(MaxRel(p', temp_old, 0, n_total, Zero))

Solution(sol) ==
  /\ A' = sol.a
  /\ IF sol.status = "ok"
       THEN Stepped(sol.b, Sqrt(Dot(sol.b, sol.b, 2, n_total, Zero)))
       ELSE /\ p' = sol.b
            /\ pc' = IF sol.status = "singular" THEN "raised" ELSE "undefined"
            /\ err' = IF sol.status = "singular" THEN "ValueError" ELSE err
            /\ UNCHANGED <<dflux, check, slope, alamin, alam, f2, flag_converge>>

\* the Newton step: the gradient g, the linear solve, the step limit, the slope
Solve ==
  /\ pc = "solve"
  /\ g' = [i \in DOMAIN g |-> IF i < n_total THEN ColDot(A, f_vec, i, 0, n_total, Zero) ELSE g[i]]
  /\ f_old' = f
  /\ Solution(mat_sol(A, par.nlevel, n_total,
                      [i \in DOMAIN p |-> IF i < n_total THEN Neg(f_vec[i]) ELSE p[i]]))
  /\ UNCHANGED <<inputVars, fluxVars, ret, temp, beta, temp_old, flux_net, flux_net_midpt,
                 flux_net_old, flux_net_midpt_old, f_vec, its, n_total, f, step_max, alam2,
                 tmplam, all_profiles, jac, calls, past_end>>

\* the artificial damper, for j1 in range(n_top_r + 1, nlevel + 1)
Damped(tp, first, tmin, tmax) ==
  [j \in DOMAIN tp |->
     IF j < first THEN tp[j]
     ELSE IF Lt(tp[j], tmin) THEN Add(tmin, Tenth)
     ELSE IF Gt(tp[j], tmax) THEN Sub(tmax, Tenth)
     ELSE tp[j]]

\* a trial whose damper finds the first cell of pressure after the last level
\* of temp
TrialUpdate_Aliased ==
  /\ pc = "trial_update"
  /\ temp' = Damped(Rebuild(temp, nstr, 0, par.nofczns, n_top_r, beta, alam, p, FALSE,
                            pressure),
                    n_top_r + 1, par.tmin, par.tmax)
  /\ pressure' = [pressure EXCEPT ![0] = IF Lt(@, par.tmin) THEN Add(par.tmin, Tenth)
                                         ELSE IF Gt(@, par.tmax) THEN Sub(par.tmax, Tenth)
                                         ELSE @]
  /\ pc' = "trial_flux"
  /\ UNCHANGED <<args, hist, nstr, par, flux_net_v, flux_net_v_layer, fluxVars, lineVars, ret,
                 beta, temp_old, flux_net, flux_net_midpt, flux_net_old, flux_net_midpt_old,
                 dflux, f_vec, p, g, A, its, n_total, f, step_max, flag_converge, all_profiles,
                 jac, calls, err, past_end>>

\* one trial of the line search: temp = beta + alam * p on the radiative levels,
\* the adiabat on the convective ones, then the damper.  The damper also tests
\* temp[nlevel], the cell after the last level, and assigns to it if what it
\* finds there is below tmin or above tmax.
TrialUpdate ==
  /\ pc = "trial_update"
  /\ temp' = Damped(Rebuild(temp, nstr, 0, par.nofczns, n_top_r, beta, alam, p, FALSE,
                            pressure),
                    n_top_r + 1, par.tmin, par.tmax)
  /\ \E written \in BOOLEAN : past_end' = IF written THEN "written" ELSE past_end
  /\ pc' = "trial_flux"
  /\ UNCHANGED <<inputVars, fluxVars, lineVars, ret, beta, temp_old, flux_net, flux_net_midpt,
                 flux_net_old, flux_net_midpt_old, dflux, f_vec, p, g, A, its, n_total, f,
                 step_max, flag_converge, all_profiles, jac, calls, err>>

TrialEntry(s, k, v) == [f_vec |-> [s.f_vec EXCEPT ![k] = v], sum |-> Add(s.sum, Mul(v, v))]

RECURSIVE TrialLevels(_, _, _, _, _)
TrialLevels(s, j, n_strt_a, nao, fmid) ==
  IF j > n_strt_a THEN s
  ELSE TrialLevels(TrialEntry(s, j - nao, fmid[j - 1]), j + 1, n_strt_a, nao, fmid)

TrialTop(s, zmap, n_top_a, nao, fnet, fmid) ==
  IF n_top_a = (zmap[0] - 1) + 1 THEN TrialEntry(s, 0, fnet[(zmap[0] - 1) + 1])
  ELSE TrialEntry(s, n_top_a - nao, fmid[n_top_a - 1])

\* the residual of the trial profile, zone by zone
RECURSIVE TrialResiduals(_, _, _, _, _, _, _)
TrialResiduals(s, zmap, nca, nofczns, nao, fnet, fmid) ==
  IF nca >= 3 * nofczns THEN s
  ELSE TrialResiduals(TrialLevels(TrialTop(s, zmap, zmap[nca] + (IF nca = 0 THEN 0 ELSE 1),
                                           IF nca = 0 /\ nao < 0 THEN 0 ELSE nao, fnet, fmid),
                                  zmap[nca] + (IF nca = 0 THEN 0 ELSE 1) + 1, zmap[nca + 1],
                                  IF nca = 0 /\ nao < 0 THEN 0 ELSE nao, fmid),
                      zmap, nca + 3, nofczns, nao + (zmap[nca + 2] + 1) - zmap[nca + 1], fnet, fmid)

TrialAssembled(s) ==
  /\ f_vec' = s.f_vec
  /\ f' = Mul(Half, s.sum)

\* the thermal fluxes of the trial profile and its residual
TrialFlux ==
  /\ pc = "trial_flux"
  /\ Extract(climate(par.engine, temp, par.nlevel, FALSE))
  /\ calls' = Counted(FluxCalls)
  /\ flux_net' = NetFlux(par.rfaci, flux_net_ir', par.rfacv, flux_net_v, par.tidal)
  /\ flux_net_midpt' = NetFlux(par.rfaci, flux_net_ir_layer', par.rfacv, flux_net_v_layer, par.tidal)
  /\ TrialAssembled(TrialResiduals([f_vec |-> f_vec, sum |-> Zero], nstr, 0, par.nofczns, n_top_r,
                                   flux_net', flux_net_midpt'))
  /\ pc' = "trial_decide"
  /\ UNCHANGED <<inputVars, lineVars, ret, temp, beta, temp_old, flux_net_old, flux_net_midpt_old,
                 dflux, p, g, A, its, n_total, step_max, flag_converge, all_profiles, jac, err,
                 past_end>>

\* the largest abs(fv[i])
RECURSIVE MaxAbs(_, _, _, _)
MaxAbs(fv, i, n, test) == IF i >= n THEN test ELSE MaxAbs(fv, i + 1, n, Larger(Abs(fv[i]), test))

\* the largest abs(g[i]) * dflux[i] / den1
RECURSIVE MaxGrad(_, _, _, _, _, _)
MaxGrad(gg, df, den1, i, n, test) ==
  IF i >= n THEN test
  ELSE MaxGrad(gg, df, den1, i + 1, n, Larger(Div(Mul(Abs(gg[i]), df[i]), den1), test))

\* the largest abs(temp[i] - temp_old[i]) / temp_old[i]
RECURSIVE MaxChange(_, _, _, _, _)
MaxChange(tp, told, i, n, test) ==
  IF i >= n THEN test
  ELSE MaxChange(tp, told, i + 1, n, Larger(Div(Abs(Sub(tp[i], told[i])), told[i]), test))

Verdict(flag, chk, raises) == [flag_converge |-> flag, check |-> chk, raises |-> raises]

check_convergence(fv, n, tf, chk, ff, df, tm, tp, told, gg, tx) ==
  IF Lt(MaxAbs(fv, 0, n, Zero), tf) THEN Verdict(2, FALSE, FALSE)
  ELSE IF chk
    THEN Verdict(2, Lt(MaxGrad(gg, df, Max(ff, Mul(Half, Int2Num(n))), 0, n, Zero), tm),
                 n > 0 /\ IsZero(Max(ff, Mul(Half, Int2Num(n)))))
  ELSE IF DividesByZero(told, n) THEN Verdict(0, chk, TRUE)
  ELSE IF Lt(MaxChange(tp, told, 0, n, Zero), tx) THEN Verdict(2, chk, FALSE)
  ELSE Verdict(1, chk, FALSE)

Step(tl, raises) == [tmplam |-> tl, raises |-> raises]

Capped(tl, al) == IF Gt(tl, Mul(Half, al)) THEN Mul(Half, al) ELSE tl

Quadratic(sl, den) == Step(Div(Neg(sl), den), IsZero(den))

CubicRoot(al, sl, anr, b, disc) ==
  IF Lt(disc, Zero) THEN Mul(Half, al)
  ELSE IF Le(b, Zero) THEN Div(Add(Neg(b), Sqrt(disc)), Mul(Three, anr))
  ELSE Div(Neg(sl), Add(b, Sqrt(disc)))

CubicRaises(sl, anr, b, disc) ==
  /\ ~Lt(disc, Zero)
  /\ IF Le(b, Zero) THEN IsZero(Mul(Three, anr)) ELSE IsZero(Add(b, Sqrt(disc)))

CubicCoef(al, sl, anr, b) ==
  IF Eq(anr, Zero)
    THEN Step(Capped(Div(Neg(sl), Mul(Two, b)), al), IsZero(Mul(Two, b)))
    ELSE Step(Capped(CubicRoot(al, sl, anr, b, Sub(Mul(b, b), Mul(Mul(Three, anr), sl))), al),
              CubicRaises(sl, anr, b, Sub(Mul(b, b), Mul(Mul(Three, anr), sl))))

CubicRhs(al, al2, sl, rhs_1, rhs_2, asq, a2sq, da) ==
  IF IsZero(asq) \/ IsZero(a2sq) \/ IsZero(da) THEN Step(NaN, TRUE)
  ELSE CubicCoef(al, sl, Div(Sub(Div(rhs_1, asq), Div(rhs_2, a2sq)), da),
                 Div(Add(Div(Mul(Neg(al2), rhs_1), asq), Div(Mul(al, rhs_2), a2sq)), da))

\* the new trial step length where the trial did not decrease f enough
Backtrack(al, al2, ff, ff2, fo, sl) ==
  IF Eq(al, One) THEN Quadratic(sl, Mul(Two, Sub(Sub(ff, fo), sl)))
  ELSE CubicRhs(al, al2, sl, Sub(Sub(ff, fo), Mul(al, sl)), Sub(Sub(ff2, fo), Mul(al2, sl)),
                Mul(al, al), Mul(al2, al2), Sub(al, al2))

HasNaN(tp) == \E j \in DOMAIN tp : IsNaN(tp[j])

\* a line search that takes the trial profile as it is
Guarded_Trusting(flag) ==
  /\ flag_converge' = flag
  /\ temp' = temp
  /\ pc' = IF flag = 0 THEN "trial_update" ELSE "end_iter"

\* the end of one pass of the line search: the escape where the profile holds
\* a NaN, the next trial where nothing was decided
Guarded(flag) ==
  IF HasNaN(temp)
    THEN /\ flag_converge' = 1
         /\ temp' = [j \in DOMAIN temp_old |-> Add(temp_old[j], Half)]
         /\ pc' = "end_iter"
    ELSE /\ flag_converge' = flag
         /\ temp' = temp
         /\ pc' = IF flag = 0 THEN "trial_update" ELSE "end_iter"

Decided(cc) ==
  IF cc.raises
    THEN /\ Raise("ZeroDivisionError")
         /\ check' = (Lt(alam, alamin) \/ check)
         /\ UNCHANGED <<flag_converge, temp, alam, alam2, f2, tmplam>>
    ELSE /\ check' = cc.check
         /\ Guarded(cc.flag_converge)
         /\ UNCHANGED <<alam, alam2, f2, tmplam, err>>

Backtracked(bt) ==
  IF bt.raises
    THEN /\ Raise("ZeroDivisionError")
         /\ UNCHANGED <<flag_converge, temp, alam, alam2, f2, tmplam, check>>
    ELSE /\ tmplam' = bt.tmplam
         /\ alam2' = alam
         /\ f2' = f
         /\ alam' = Max(bt.tmplam, Mul(Tenth, alam))
         /\ Guarded(0)
         /\ UNCHANGED <<check, err>>

\* what the line search makes of the trial: accepted or given up (the verdict
\* of check_convergence), or a shorter step
TrialDecide ==
  /\ pc = "trial_decide"
  /\ IF Lt(alam, alamin) \/ Le(f, Add(f_old, Mul(Mul(alf, alam), slope)))
       THEN Decided(check_convergence(f_vec, n_total, tolf, Lt(alam, alamin) \/ check, f, dflux,
                                      tolmin, temp, temp_old, g, tolx))
       ELSE Backtracked(Backtrack(alam, alam2, f, f2, f_old, slope))
  /\ UNCHANGED <<inputVars, fluxVars, ret, beta, temp_old, flux_net, flux_net_midpt, flux_net_old,
                 flux_net_midpt_old, dflux, f_vec, p, g, A, its, n_total, f, f_old, step_max,
                 slope, alamin, all_profiles, jac, calls, past_end>>

Profile(tp, n) == [i \in 1..n |-> tp[i - 1]]

\* the end of one outer iteration: the profile saved, the return where the
\* line search converged, the next iteration otherwise
EndIter ==
  /\ pc = "end_iter"
  /\ IF IsZero(Abs(par.tidal[0]))
       THEN /\ Raise("ZeroDivisionError")
            /\ UNCHANGED <<all_profiles, ret, its>>
     ELSE /\ all_profiles' = IF par.save_profile = 1
                               THEN all_profiles \o Profile(temp_old, par.nlevel)
                               ELSE all_profiles
          /\ IF flag_converge = 2
               THEN IF LapseRaises(pressure, par.nlevel)
                      THEN Raise("ZeroDivisionError") /\ UNCHANGED <<ret, its>>
                      ELSE /\ ret' = Returned(1001, temp, flag_converge, flux_net_ir, flux_plus_ir,
                                              all_profiles')
                           /\ pc' = "returned"
                           /\ UNCHANGED <<err, its>>
               ELSE /\ its' = its + 1
                    /\ pc' = IF its + 1 < par.it_max THEN "iter_top" ELSE "exhausted"
                    /\ UNCHANGED <<err, ret>>
  /\ UNCHANGED <<inputVars, fluxVars, lineVars, temp, beta, temp_old, flux_net, flux_net_midpt,
                 flux_net_old, flux_net_midpt_old, dflux, f_vec, p, g, A, n_total, f, step_max,
                 flag_converge, jac, calls, past_end>>

\* an exit that raises where the iterations are used up
Exhausted_Raising ==
  /\ pc = "exhausted"
  /\ Raise("RuntimeError")
  /\ UNCHANGED <<inputVars, fluxVars, lineVars, ret, temp, beta, temp_old, flux_net,
                 flux_net_midpt, flux_net_old, flux_net_midpt_old, dflux, f_vec, p, g, A, its,
                 n_total, f, step_max, flag_converge, all_profiles, jac, calls, past_end>>

\* after the last iteration: the return with the profile as it stands
Exhausted ==
  /\ pc = "exhausted"
  /\ IF LapseRaises(pressure, par.nlevel)
       THEN Raise("ZeroDivisionError") /\ ret' = ret
       ELSE /\ ret' = Returned(1009, temp, flag_converge, flux_net_ir_layer, flux_plus_ir,
                               all_profiles)
            /\ pc' = "returned"
            /\ err' = err
  /\ UNCHANGED <<inputVars, fluxVars, lineVars, temp, beta, temp_old, flux_net, flux_net_midpt,
                 flux_net_old, flux_net_midpt_old, dflux, f_vec, p, g, A, its, n_total, f,
                 step_max, flag_converge, all_profiles, jac, calls, past_end>>

(***************************************************************************)
(* The calls of t_start that are explored.  Pressures rise by a decade per *)
(* level; the zone map is one radiative zone down to the last level or down *)
(* to the level above a one-level convective zone; moist is False.         *)
(***************************************************************************)
\* the entries of the zone map
NstrLen == 20

MaxLevel == 3

ItMax == 3

Levels == 2..MaxLevel

Uniform(n, v) == [i \in 0..(n - 1) |-> v]

Decades(n) == [i \in 0..(n - 1) |-> Int2Num(10 ^ i)]

StartProfile(n) ==
  [i \in 0..(n - 1) |-> Int2Num(IF n = 2 THEN 60 + 20 * i ELSE IF i = 0 THEN 100 ELSE 200)]

Diagonal(n) == [k \in 0..(n - 1) |-> [j \in 0..(n - 1) |-> IF j = k THEN 1 ELSE 0]]

UpperOnes(n) == [k \in 0..(n - 1) |-> [j \in 0..(n - 1) |-> IF j >= k THEN 1 ELSE 0]]

Radiative(n) == [i \in 0..(NstrLen - 1) |-> IF i = 1 THEN n - 1 ELSE IF i = 2 THEN n - 2 ELSE 0]

ConvectiveBottom(n) == [i \in 0..(NstrLen - 1) |-> IF i \in {1, 2} THEN n - 2 ELSE 0]

ZoneMapsOf(n) == IF n > 2 THEN {Radiative(n), ConvectiveBottom(n)} ELSE {Radiative(n)}

Engine(phi, M, off, ref, vis) ==
  [phi |-> phi, M |-> M, off |-> off, ref |-> ref, vis |-> vis, at |-> <<>>, lev |-> <<>>]

\* the engine e, but with the thermal net fluxes lev at the profile tp
EngineAt(e, tp, lev) ==
  [phi |-> e.phi, M |-> e.M, off |-> e.off, ref |-> e.ref, vis |-> e.vis, at |-> tp, lev |-> lev]

Call(n, zmap, tp, tidal, it_max, save_profile, do_holes, engine) ==
  [nlevel |-> n, nofczns |-> 1, nstr |-> zmap, temp |-> tp, pressure |-> Decades(n),
   rfaci |-> One, rfacv |-> One, tidal |-> Uniform(n, Int2Num(tidal)),
   tmin |-> Int2Num(50), tmax |-> Int2Num(400), it_max |-> it_max,
   save_profile |-> save_profile, do_holes |-> do_holes, all_profiles |-> <<>>,
   engine |-> engine]

\* a net flux that is T[k] - target at every level: the linear balance
Balanced(n, target, tidal) ==
  Engine(Uniform(n, "linear"), Diagonal(n), Uniform(n, Int2Num(target + 2 + tidal)), Zero,
         Int2Num(2))

BalancedCalls ==
  {Call(n, zmap, tp, tidal, it_max, 1, FALSE, Balanced(n, target, tidal)) :
     n \in Levels, zmap \in UNION {ZoneMapsOf(m) : m \in Levels},
     tp \in UNION {{StartProfile(m), Uniform(m, Int2Num(250))} : m \in Levels},
     tidal \in {0, 1, 1000}, it_max \in 1..ItMax, target \in {20, 100, 250, 500}}

\* no flux at all
Dark(n) == Engine(Uniform(n, "linear"), Uniform(n, Uniform(n, 0)), Uniform(n, Zero), Zero, Zero)

DarkCalls ==
  {Call(n, Radiative(n), StartProfile(n), tidal, it_max, 0, FALSE, Dark(n)) :
     n \in Levels, tidal \in {0, 1}, it_max \in 1..ItMax}

\* net fluxes that are sums of level temperatures: every Jacobian of zeros and ones
Mixed(n, M) == Engine(Uniform(n, "linear"), M, Uniform(n, Int2Num(-5)), Zero, Zero)

Matrices(n) ==
  IF n = 2 THEN [0..1 -> [0..1 -> {0, 1}]]
  ELSE {Diagonal(n), UpperOnes(n), Uniform(n, Uniform(n, 1)),
        [k \in 0..(n - 1) |-> [j \in 0..(n - 1) |-> IF j = n - 1 - k THEN 1 ELSE 0]]}
         \cup {[k \in 0..(n - 1) |-> [j \in 0..(n - 1) |-> IF k = r THEN 0 ELSE IF j >= k THEN 1 ELSE 0]] :
                 r \in 0..(n - 1)}

MixedCalls ==
  {Call(n, Radiative(n), StartProfile(n), 1, 1, 0, do_holes, Mixed(n, M)) :
     n \in Levels, M \in UNION {Matrices(m) : m \in Levels}, do_holes \in BOOLEAN}

\* net fluxes with no root, (T - 250)^2 + 1 or |T - 250| + 1
Curved(n, kind) == Engine(Uniform(n, kind), Diagonal(n), Uniform(n, Zero), Int2Num(250), Zero)

CurvedCalls ==
  {Call(n, Radiative(n), tp, 1, it_max, save_profile, FALSE, Curved(n, kind)) :
     n \in Levels, tp \in UNION {{StartProfile(m), Uniform(m, Int2Num(249))} : m \in Levels},
     it_max \in 1..ItMax, save_profile \in {0, 1}, kind \in {"square", "abs"}}

\* net fluxes with a peak just below tmax that the perturbation of the
\* Jacobian steps over, 2 - |T - 399|: the Newton step points uphill and
\* into the damper
Peaked(n) ==
  Engine(Uniform(n, "abs"), [k \in 0..(n - 1) |-> [j \in 0..(n - 1) |-> IF j = k THEN -1 ELSE 0]],
         Uniform(n, Int2Num(-1)), Int2Num(399), Zero)

PeakedCalls ==
  {Call(n, Radiative(n), Uniform(n, Int2Num(398)), 1, it_max, 0, FALSE, Peaked(n)) :
     n \in Levels, it_max \in 1..ItMax}

\* a flux engine that returns NaN above a temperature: at the top level only,
\* where the last level is perturbed, or at every level once the profile has
\* moved towards the balance
Broken(n, everywhere) ==
  IF everywhere
    THEN Engine(Uniform(n, "nan"), Diagonal(n), Uniform(n, Int2Num(251)), Int2Num(210), Zero)
    ELSE Engine([k \in 0..(n - 1) |-> IF k = 0 THEN "nan" ELSE "linear"], UpperOnes(n),
                Uniform(n, Zero), Add(StartProfile(n)[n - 1], One), Zero)

BrokenCalls ==
  {Call(n, Radiative(n), StartProfile(n), 1, it_max, 1, FALSE, Broken(n, everywhere)) :
     n \in Levels, it_max \in 1..ItMax, everywhere \in BOOLEAN}

\* two zones on four levels: level 0 radiative, levels 1 and 2 on the adiabat
\* below it, level 2 solved again as the radiative level of the second
\* zone, level 3 on the adiabat below that
TwoZones ==
  [i \in 0..(NstrLen - 1) |-> IF i \in {2, 3} THEN 1 ELSE IF i \in {4, 5} THEN 2 ELSE 0]

\* net fluxes (T - 250)^2 + 1 from solved levels one kelvin off the minimum
TwoZoneCalls ==
  {[Call(4, TwoZones, [i \in 0..3 |-> Int2Num(IF i \in {0, 2} THEN 251 ELSE cold)], 1, it_max,
         0, FALSE, Curved(4, "square")) EXCEPT !.nofczns = 2] :
     cold \in {60, 100}, it_max \in 1..2}

\* the arrays of a call have one entry per level
WellFormed(c) ==
  /\ DOMAIN c.temp = 0..(c.nlevel - 1)
  /\ DOMAIN c.engine.M = 0..(c.nlevel - 1)
  /\ \/ c.nofczns = 1 /\ c.nstr \in ZoneMapsOf(c.nlevel)
     \/ c.nofczns = 2 /\ c.nlevel = 4 /\ c.nstr = TwoZones

\* net fluxes whose Jacobian has two equal rows and no row of zeros: residuals
\* (-1, 0, 1) at the start profile (100, 200, 200)
Singular == [k \in 0..2 |-> [j \in 0..2 |-> IF k = 2 /\ j = 2 THEN 2 ELSE 1]]

Degenerate ==
  Engine(Uniform(3, "linear"), Singular,
         [k \in 0..2 |-> Int2Num(IF k = 0 THEN 502 ELSE IF k = 1 THEN 501 ELSE 700)], Zero, Zero)

\* the profile of the full step from there, the first two levels held by the damper
Clamped ==
  [i \in 0..2 |-> IF i = 0 THEN Sub(Int2Num(400), Tenth)
                  ELSE IF i = 1 THEN Add(Int2Num(50), Tenth) ELSE Int2Num(203)]

\* the thermal net fluxes that give the residuals r with a tidal flux of 1
ThermalFor(r0, r1, r2) ==
  [k \in 0..2 |-> Int2Num((IF k = 0 THEN r0 ELSE IF k = 1 THEN r1 ELSE r2) - 1)]

DegenerateCalls ==
  {Call(3, Radiative(3), StartProfile(3), 1, 1, 0, FALSE, e) :
     e \in {Degenerate, EngineAt(Degenerate, Clamped, ThermalFor(2, 1, 0)),
            EngineAt(Degenerate, Clamped, ThermalFor(2, 2, 0))}}

Scenarios ==
  {c \in BalancedCalls \cup DarkCalls \cup MixedCalls \cup CurvedCalls \cup PeakedCalls
          \cup DegenerateCalls \cup TwoZoneCalls
          \cup BrokenCalls :
     WellFormed(c)}

Init == par \in Scenarios /\ InitTStart

Next ==
  \/ BaseFlux
  \/ IterTop
  \/ JacobianColumn
  \/ Solve
  \/ TrialUpdate
  \/ TrialFlux
  \/ TrialDecide
  \/ EndIter
  \/ Exhausted

(***************************************************************************)
(* Specification of locate: the inputs are drawn, then locate is applied.  *)
(***************************************************************************)
MaxLen == 3

MaxVal == 4

\* the strictly ascending array holding the members of a set of integers
SortedArray(S) ==
  [i \in 0..(Cardinality(S) - 1) |->
     Int2Num(CHOOSE x \in S : Cardinality({y \in S : y < x}) = i)]

LocateArrays ==
  {SortedArray(S) : S \in {S \in SUBSET (0..MaxVal) : Cardinality(S) \in 1..MaxLen}}

\* the array values, the midpoints between them and values outside
LocateValues == {Rat(k, 2) : k \in (-2)..(2 * MaxVal + 2)}

NoZoneMap == [i \in 0..0 |-> 0]

\* the variables of t_start while a helper function is explored on its own
tsVars ==
  <<par, temp, beta, temp_old, flux_net_ir, flux_net_ir_layer, flux_net_v, flux_net_v_layer,
    flux_plus_ir, flux_net, flux_net_midpt, flux_net_old, flux_net_midpt_old, dflux, f_vec, p, g,
    A, its, n_total, f, f_old, f2, step_max, slope, alamin, alam, alam2, tmplam, check,
    flag_converge, all_profiles, jac, calls, err, past_end, pressure>>

TStartIdle ==
  /\ par = <<>>
  /\ temp = <<>>
  /\ beta = <<>>
  /\ temp_old = <<>>
  /\ flux_net_ir = <<>>
  /\ flux_net_ir_layer = <<>>
  /\ flux_net_v = <<>>
  /\ flux_net_v_layer = <<>>
  /\ flux_plus_ir = <<>>
  /\ flux_net = <<>>
  /\ flux_net_midpt = <<>>
  /\ flux_net_old = <<>>
  /\ flux_net_midpt_old = <<>>
  /\ dflux = <<>>
  /\ f_vec = <<>>
  /\ p = <<>>
  /\ g = <<>>
  /\ A = <<>>
  /\ all_profiles = <<>>
  /\ its = 0
  /\ n_total = 0
  /\ flag_converge = 0
  /\ calls = 0
  /\ f = Zero
  /\ f_old = Zero
  /\ f2 = Zero
  /\ step_max = Zero
  /\ slope = Zero
  /\ alamin = Zero
  /\ alam = Zero
  /\ alam2 = Zero
  /\ tmplam = Zero
  /\ check = FALSE
  /\ jac = NoColumn
  /\ err = "none"
  /\ past_end = "untouched"
  /\ pressure = <<>>

HelperIdle == nstr = NoZoneMap /\ hist = <<>> /\ TStartIdle

InitLocate ==
  /\ pc = "locate_call"
  /\ args \in {[array |-> arr, value |-> v] : arr \in LocateArrays, v \in LocateValues}
  /\ ret = [jl |-> -1]
  /\ HelperIdle

LocateCall ==
  /\ pc = "locate_call"
  /\ ret' = [jl |-> locate(args.array, args.value)]
  /\ pc' = "locate_done"
  /\ UNCHANGED <<args, nstr, hist, tsVars>>

NextLocate == LocateCall

(***************************************************************************)
(* Specification of did_grad_cp on the lapse table.                        *)
(***************************************************************************)
\* log10 of the queries on one axis: every node, the middle of every interval,
\* and values below the first and above the last node; a query that is NaN (or
\* negative, whose log10 is NaN) is added where the queries are drawn
AxisQueries(table, len) ==
  {table[i] : i \in 0..(len - 1)}
    \cup {Div(Add(table[i], table[i + 1]), Int2Num(2)) : i \in 0..(len - 2)}
    \cup {Sub(table[0], One), Add(table[len - 1], One)}

InitGrad ==
  /\ pc = "did_grad_cp_call"
  /\ args \in {[t |-> Pow10(lt), p |-> Pow10(lp)] :
                 lt \in AxisQueries(t_table, NT_TABLE) \cup {NaN},
                 lp \in AxisQueries(p_table, NP_TABLE) \cup {NaN}}
  /\ ret = [grad_x |-> Zero, cp_x |-> Zero]
  /\ HelperIdle

DidGradCpCall ==
  /\ pc = "did_grad_cp_call"
  /\ ret' = did_grad_cp(args.t, args.p, t_table, p_table, grad, cp)
  /\ pc' = "did_grad_cp_done"
  /\ UNCHANGED <<args, nstr, hist, tsVars>>

NextGrad == DidGradCpCall

(***************************************************************************)
(* Specification of lu_decomp followed by lu_backsubs, on the arrays the   *)
(* caller passes (both work in place).                                     *)
(***************************************************************************)
LuNtot == 3

LuMaxEntry == 1

\* the value of the entries outside the active block
Sentinel == Int2Num(7)

LuMatrices(n) ==
  {[i \in 0..(LuNtot - 1) |-> [j \in 0..(LuNtot - 1) |->
      IF i < n /\ j < n THEN Int2Num(e[i * n + j]) ELSE Sentinel]] :
    e \in [0..(n * n - 1) -> (-LuMaxEntry)..LuMaxEntry]}

LuVectors(n) ==
  {[i \in 0..(LuNtot - 1) |-> IF i < n THEN Int2Num(e[i]) ELSE Sentinel] :
    e \in [0..(n - 1) -> 0..LuMaxEntry]}

InitLU ==
  /\ pc = "lu_call"
  /\ \E n \in 1..LuNtot : \E a \in LuMatrices(n) : \E b \in LuVectors(n) :
       /\ args = [a |-> a, n |-> n, ntot |-> LuNtot, b |-> b]
       /\ ret = [status |-> "none", a |-> a, indx |-> [i \in 0..(n - 1) |-> 0], b |-> b]
  /\ HelperIdle

LuDecompCall ==
  /\ pc = "lu_call"
  /\ ret' = lu_decomp(ret.a, args.n, args.ntot) @@ [b |-> ret.b]
  /\ pc' = IF ret'.status = "ok" THEN "lu_decomp_done" ELSE "lu_raised"
  /\ UNCHANGED <<args, nstr, hist, tsVars>>

LuBacksubsCall ==
  /\ pc = "lu_decomp_done"
  /\ ret' = [ret EXCEPT !.b = lu_backsubs(ret.a, args.n, args.ntot, ret.indx, ret.b)]
  /\ pc' = "lu_backsubs_done"
  /\ UNCHANGED <<args, nstr, hist, tsVars>>

NextLU == LuDecompCall \/ LuBacksubsCall

(***************************************************************************)
(* Specification of growup and growdown, called in any order on a ZoneMap. *)
(***************************************************************************)
\* the dimension of nstr
\* the levels are 0..ZoneLevels-1
ZoneLevels == 4

MaxZone == 2

MaxGrow == 1

\* the entries of nstr the two functions can reach for the zones 1..MaxZone
ZoneEntries == 1..(3 * MaxZone)

ZoneMaps ==
  {[i \in 0..(NstrLen - 1) |-> IF i \in ZoneEntries THEN e[i] ELSE 0] :
     e \in {e \in [ZoneEntries -> 0..(ZoneLevels - 1)] :
              \A i \in ZoneEntries : i + 1 \in ZoneEntries => e[i] <= e[i + 1]}}

\* the maps the calls are explored from: a map that left the levels is not
\* grown further
InRange(zmap) == \A i \in DOMAIN zmap : zmap[i] \in 0..(ZoneLevels - 1)

\* the last two calls
Remember(call) == IF Len(hist) < 2 THEN Append(hist, call) ELSE <<hist[2], call>>

InitZone ==
  /\ pc = "zone"
  /\ args = <<>>
  /\ ret = <<>>
  /\ nstr \in ZoneMaps
  /\ hist = <<>>
  /\ TStartIdle

GrowUp ==
  /\ pc = "zone"
  /\ InRange(nstr)
  /\ \E nlv \in 1..MaxZone : \E ngrow \in 0..MaxGrow :
       /\ nstr' = growup(nlv, nstr, ngrow)
       /\ hist' = Remember([op |-> "growup", nlv |-> nlv, ngrow |-> ngrow, before |-> nstr])
  /\ UNCHANGED <<pc, args, ret, tsVars>>

GrowDown ==
  /\ pc = "zone"
  /\ InRange(nstr)
  /\ \E nlv \in 1..MaxZone : \E ngrow \in 0..MaxGrow :
       /\ nstr' = growdown(nlv, nstr, ngrow)
       /\ hist' = Remember([op |-> "growdown", nlv |-> nlv, ngrow |-> ngrow, before |-> nstr])
  /\ UNCHANGED <<pc, args, ret, tsVars>>

NextZone == GrowUp \/ GrowDown


(***************************************************************************)
(* The residual assembly of t_start on its own: the loop of the outer      *)
(* iteration and the loop of the line search, from residual vectors that   *)
(* hold a NaN in every cell and fluxes that tell the levels apart.         *)
(***************************************************************************)
AsmLevels == 4

\* every map of two triples over the levels, the first entry included
AsmMaps ==
  {[i \in 0..(NstrLen - 1) |-> IF i < 6 THEN e[i] ELSE 0] :
     e \in {e \in [0..5 -> 0..(AsmLevels - 1)] : \A i \in 0..4 : e[i] <= e[i + 1]}}

\* cells before and after the nlevel cells of the arrays show a write there
Blank == [k \in (0 - AsmLevels)..(2 * AsmLevels) |-> NaN]

LevelFluxes == [k \in 0..(AsmLevels - 1) |-> Int2Num(100 + k)]

MidptFluxes == [k \in 0..(AsmLevels - 1) |-> Int2Num(200 + k)]

InitAssemble ==
  /\ pc = "assemble"
  /\ args \in {[nofczns |-> z] : z \in 1..2}
  /\ ret = <<>>
  /\ nstr \in AsmMaps
  /\ hist = <<>>
  /\ TStartIdle

\* lines 488-551
Assemble ==
  /\ pc = "assemble"
  /\ ret' = [base |-> Residuals([dflux |-> Blank, f_vec |-> Blank, sum |-> Zero, sum_1 |-> Zero,
                                test |-> Zero, n_total |-> 0],
                               nstr, 0, args.nofczns, nstr[0] - 1, LevelFluxes, MidptFluxes,
                               [k \in DOMAIN Blank |-> One])]
  /\ pc' = "assembled"
  /\ UNCHANGED <<args, nstr, hist, tsVars>>

\* lines 883-921
Reassemble ==
  /\ pc = "assembled"
  /\ ret' = [base |-> ret.base,
             trial |-> TrialResiduals([f_vec |-> Blank, sum |-> Zero], nstr, 0, args.nofczns,
                                      nstr[0] - 1, LevelFluxes, MidptFluxes)]
  /\ pc' = "reassembled"
  /\ UNCHANGED <<args, nstr, hist, tsVars>>

\* the columns of the Jacobian one after the other, every entry the
\* difference of two fluxes over a perturbation of 1
RECURSIVE FillColumns(_, _, _, _)
FillColumns(a, zmap, nofczns, col) ==
  IF col.done THEN a
  ELSE FillColumns(FillColumn(a, zmap, 0, nofczns, zmap[0] - 1, col.jm - col.no, LevelFluxes,
                              MidptFluxes, MidptFluxes, LevelFluxes, One),
                   zmap, nofczns, ColumnAt(zmap, nofczns, col.nz, col.jm + 1, col.no))

\* lines 577-721, from a matrix that holds a NaN in every cell
FillJacobian ==
  /\ pc = "reassembled"
  /\ ret' = [base |-> ret.base, trial |-> ret.trial,
             A |-> FillColumns([r \in DOMAIN Blank |-> Blank], nstr, args.nofczns,
                               FirstColumn(nstr, args.nofczns))]
  /\ pc' = "filled"
  /\ UNCHANGED <<args, nstr, hist, tsVars>>

NextAssemble == Assemble \/ Reassemble \/ FillJacobian

(***************************************************************************)
(* Specification of the two profile reconstructions of t_start, applied to *)
(* the same radiative temperatures: the old profile with the level jm      *)
(* raised by del_t.                                                        *)
(***************************************************************************)
RebLevels == 4

\* one zone: radiative levels 0..r, convective levels r+1..b+1
RebMaps ==
  {[i \in 0..(NstrLen - 1) |-> IF i = 1 THEN r ELSE IF i = 2 THEN b ELSE 0] :
     r \in 0..(RebLevels - 2), b \in 0..(RebLevels - 2)}

RebProfiles == [0..(RebLevels - 1) -> {Int2Num(100), Int2Num(200)}]

InitRebuild ==
  /\ pc = "rebuild"
  /\ nstr \in {zmap \in RebMaps : zmap[1] <= zmap[2]}
  /\ args \in {[beta |-> b, jm |-> jm, del_t |-> Int2Num(d)] :
                 b \in RebProfiles, jm \in 0..(RebLevels - 2), d \in {3, 100}}
  /\ args.jm <= nstr[1]
  /\ ret = <<>>
  /\ hist = <<>>
  /\ TStartIdle

\* lines 604-633, the level jm perturbed as in lines 595-597
JacobianRebuild ==
  /\ pc = "rebuild"
  /\ ret' = [jac |-> Rebuild(args.beta, nstr, 0, 1, nstr[0] - 1,
                             [args.beta EXCEPT ![args.jm] = Add(args.beta[args.jm], args.del_t)],
                             One, Uniform(RebLevels, Zero), TRUE, Decades(RebLevels))]
  /\ pc' = "jacobian_rebuilt"
  /\ UNCHANGED <<args, nstr, hist, tsVars>>

\* lines 816-848, with alam = 1 and the step del_t at the level jm
SearchRebuild ==
  /\ pc = "jacobian_rebuilt"
  /\ ret' = [jac |-> ret.jac,
             search |-> Rebuild(args.beta, nstr, 0, 1, nstr[0] - 1, args.beta, One,
                                [Uniform(RebLevels, Zero) EXCEPT ![args.jm] = args.del_t],
                                FALSE, Decades(RebLevels))]
  /\ pc' = "search_rebuilt"
  /\ UNCHANGED <<args, nstr, hist, tsVars>>

NextRebuild == JacobianRebuild \/ SearchRebuild

(***************************************************************************)
(* Specification of one call of growup or growdown on any zone that an     *)
(* nstr of dimension 20 holds.                                             *)
(***************************************************************************)
ZonesHeld == 1..(NstrLen \div 3)

InitFrame ==
  /\ pc = "grow"
  /\ args = <<>>
  /\ ret = <<>>
  /\ nstr \in ZoneMaps
  /\ hist = <<>>
  /\ TStartIdle

\* lines 1063-1073; ret holds the indices of nstr the call assigns
GrowUpOnce ==
  /\ pc = "grow"
  /\ \E nlv \in ZonesHeld : \E ngrow \in 0..MaxGrow :
       /\ nstr' = growup(nlv, nstr, ngrow)
       /\ args' = [op |-> "growup", nlv |-> nlv, ngrow |-> ngrow, before |-> nstr]
       /\ ret' = {2 + 3 * (nlv - 1) - 1}
  /\ pc' = "grown"
  /\ UNCHANGED <<hist, tsVars>>

\* lines 1075-1087
GrowDownOnce ==
  /\ pc = "grow"
  /\ \E nlv \in ZonesHeld : \E ngrow \in 0..MaxGrow :
       /\ nstr' = growdown(nlv, nstr, ngrow)
       /\ args' = [op |-> "growdown", nlv |-> nlv, ngrow |-> ngrow, before |-> nstr]
       /\ ret' = {3 + 3 * (nlv - 1) - 1, 3 + 3 * (nlv - 1) - 1 + 1}
  /\ pc' = "grown"
  /\ UNCHANGED <<hist, tsVars>>

NextFrame == GrowUpOnce \/ GrowDownOnce

(***************************************************************************)
(* Specification of cpfunc: the branch taken on the temperature and the    *)
(* index handed to polyAE, for the gases 9..25.  The coefficients A..E of  *)
(* every gas are lists of three numbers; their values are left out.        *)
(***************************************************************************)
FirstGas == 9

LastGas == 25

CoefLen == 3

\* kelvins at and around the limits of the branches
CpTemps == {0, 50, 99, 100, 101, 500, 999, 1000, 1001, 1500, 2499, 2500, 2501, 3000, 6000}

\* A[it] + B[it]*t + C[it]*t**2 + D[it]*t**3 + E[it]/t**2: a number where it
\* is an index of the lists; past their end the read is not checked, and
\* gives whatever lies there or faults
polyAE(len, it) == IF it \in 0..(len - 1) THEN {"number"} ELSE {"garbage", "fault"}

\* the branch of lines 1888-1898 with the index it handed to polyAE
cpfunc(igas, t) ==
  IF t > 2500 THEN [branch |-> "above 2500", it |-> 3, cp |-> polyAE(CoefLen, 3)]
  ELSE IF t > 1000 /\ t <= 2500 THEN [branch |-> "1000 to 2500", it |-> 2, cp |-> polyAE(CoefLen, 2)]
  ELSE IF t >= 100 /\ t < 1000 THEN [branch |-> "100 to 1000", it |-> 1, cp |-> polyAE(CoefLen, 1)]
  ELSE [branch |-> "default", it |-> -1, cp |-> {"default_cp"}]

InitCp ==
  /\ pc = "cpfunc_call"
  /\ args \in {[igas |-> igas, temp |-> t] : igas \in FirstGas..LastGas, t \in CpTemps}
  /\ ret = <<>>
  /\ HelperIdle

CpfuncCall ==
  /\ pc = "cpfunc_call"
  /\ \E cp_x \in cpfunc(args.igas, args.temp).cp :
       ret' = [branch |-> cpfunc(args.igas, args.temp).branch,
               it |-> cpfunc(args.igas, args.temp).it, cp |-> cp_x]
  /\ pc' = "cpfunc_done"
  /\ UNCHANGED <<args, nstr, hist, tsVars>>

NextCp == CpfuncCall
vars == <<pc, args, ret, nstr, hist, tsVars>>

Spec == Init /\ [][Next]_vars

\* the positions of a call of t_start that has not ended
Running ==
  {"start", "iter_top", "jacobian", "solve", "trial_update", "trial_flux", "trial_decide",
   "end_iter", "exhausted"}

\* the call moves on to another position
Proceed == pc \in Running /\ pc' \in Running \cup {"returned", "raised", "undefined"}

\* a call of t_start that has not ended keeps running: no step of it waits
\* for anything outside the call
SpecFair == Spec /\ WF_pc(Proceed)

SpecLocate == InitLocate /\ [][NextLocate]_vars

SpecGrad == InitGrad /\ [][NextGrad]_vars

SpecLU == InitLU /\ [][NextLU]_vars

SpecZone == InitZone /\ [][NextZone]_vars

SpecAssemble == InitAssemble /\ [][NextAssemble]_vars

SpecRebuild == InitRebuild /\ [][NextRebuild]_vars

SpecFrame == InitFrame /\ [][NextFrame]_vars

SpecCp == InitCp /\ [][NextCp]_vars


\* t_start together with lu_decomp and lu_backsubs called on their own
SpecSolve == (Init \/ InitLU) /\ [][Next \/ NextLU]_vars
(***************************************************************************)
(* Properties of the helper functions                                      *)
(***************************************************************************)
\* x <= y and x < y computed on the fractions themselves (exp = 0)
ExactLe(x, y) == x.num * y.den <= y.num * x.den

ExactLt(x, y) == x.num * y.den < y.num * x.den

RECURSIVE IntDet(_, _)
RECURSIVE IntDetSum(_, _, _)
IntMinor(m, n, c) ==
  [i \in 0..(n - 2) |-> [j \in 0..(n - 2) |-> m[i + 1][IF j < c THEN j ELSE j + 1]]]

IntDetSum(m, n, c) ==
  IF c >= n THEN 0
  ELSE (IF c % 2 = 0 THEN 1 ELSE -1) * m[0][c] * IntDet(IntMinor(m, n, c), n - 1)
         + IntDetSum(m, n, c + 1)

IntDet(m, n) == IF n = 0 THEN 1 ELSE IntDetSum(m, n, 0)

IntMatrix(a, n) == [i \in 0..(n - 1) |-> [j \in 0..(n - 1) |-> a[i][j].num]]

\* the product of the denominators of x[j..n-1]
RECURSIVE DenProduct(_, _, _)
DenProduct(x, j, n) == IF j >= n THEN 1 ELSE x[j].den * DenProduct(x, j + 1, n)

\* the sum over j of a[i,j] * x[j], times the product of the denominators
RECURSIVE ScaledRowDot(_, _, _, _, _)
ScaledRowDot(a, x, i, j, n) ==
  IF j >= n THEN 0
  ELSE a[i][j].num * x[j].num * (DenProduct(x, 0, n) \div x[j].den) + ScaledRowDot(a, x, i, j + 1, n)

\* a * x = b on the leading n x n block, a and b integer, in exact arithmetic
SolvesExactly(a, x, b, n) ==
  /\ \A j \in 0..(n - 1) : x[j].den > 0 /\ x[j].exp = 0
  /\ \A i \in 0..(n - 1) : ScaledRowDot(a, x, i, 0, n) = b[i].num * DenProduct(x, 0, n)

AtNode(i, k) == Log10(args.t) = t_table[i] /\ Log10(args.p) = p_table[k]

NodeValues(i, k) ==
  /\ ret.grad_x = grad[i][k]
  /\ ret.cp_x = Pow10(cp[i][k])
  /\ ret.factkt \in {Zero, One}
  /\ ret.factkp \in {Zero, One}

\* C10: at every node (i, k) of the table, did_grad_cp called with
\* log10(T) = t_table[i] and log10(P) = p_table[k] returns exactly grad[i, k]
\* and 10 ** cp[i, k], each blend factor being exactly 0 or 1.
C10_NodeValues ==
  pc = "did_grad_cp_done" =>
    \A i \in 0..(NT_TABLE - 1) :
      Log10(args.t) = t_table[i] =>
        \A k \in 0..(NP_TABLE - 1) : Log10(args.p) = p_table[k] => NodeValues(i, k)

\* the last node of both axes, answered from the cell below it with factors 1
C10_Witness ==
  /\ pc = "did_grad_cp_done"
  /\ AtNode(NT_TABLE - 1, NP_TABLE - 1)
  /\ ret.factkt = One
  /\ ret.factkp = One
  /\ ret.pos_t = NT_TABLE - 2
  /\ ret.grad_x = grad[NT_TABLE - 1][NP_TABLE - 1]

\* growdown(z, n) directly followed by growup(z, n)
DownThenUp ==
  /\ Len(hist) = 2
  /\ hist[1].op = "growdown"
  /\ hist[2].op = "growup"
  /\ hist[1].nlv = hist[2].nlv
  /\ hist[1].ngrow = hist[2].ngrow

\* C3 as stated: growdown(z, nstr, n) directly followed by growup(z, nstr, n)
\* leaves every entry of nstr equal to its value before the two calls.
C3_Restored == DownThenUp => nstr = hist[1].before

\* C3 as the code has it: after growdown(z, nstr, n) and growup(z, nstr, n),
\* nstr[3z-2] is n lower, nstr[3z-1] and nstr[3z] are n higher, and every
\* other entry is as before.
C3_TopRaisedBottomLowered ==
  DownThenUp =>
    nstr = [i \in DOMAIN nstr |->
              IF i = 3 * hist[1].nlv - 2 THEN hist[1].before[i] - hist[1].ngrow
              ELSE IF i \in {3 * hist[1].nlv - 1, 3 * hist[1].nlv}
                THEN hist[1].before[i] + hist[1].ngrow
              ELSE hist[1].before[i]]

\* the pair of calls with n = 1 on the second zone
C3_Witness == DownThenUp /\ hist[1].ngrow = 1 /\ hist[1].nlv = 2 /\ nstr # hist[1].before
(***************************************************************************)
(* Properties of t_start                                                   *)
(***************************************************************************)
\* the total net flux (rfaci * thermal + rfacv * visible + tidal) of level k for
\* the profile tp
TotalFlux(tp, k) ==
  NetFlux(par.rfaci, climate(par.engine, tp, par.nlevel, FALSE).net_ir, par.rfacv, flux_net_v,
          par.tidal)[k]

ZeroTidal == \A k \in DOMAIN par.tidal : IsZero(par.tidal[k])

\* the flux engine returns no net flux, thermal or visible, for the profile supplied
ZeroFluxAtInput ==
  \A k \in 0..(par.nlevel - 1) :
    /\ IsZero(climate(par.engine, par.temp, par.nlevel, TRUE).net_ir[k])
    /\ IsZero(climate(par.engine, par.temp, par.nlevel, TRUE).net_v[k])

\* C4: called on a 2-level atmosphere with zero tidal heating at every level and
\* a flux engine that returns zero net flux for the profile supplied, t_start
\* leaves only by the return of the already-at-a-root test of the first outer
\* iteration, with status 2 and the input profile, after the one flux call made
\* before the loop: no Jacobian column is built and no trial is made.
C4_FastPath ==
  (par.nlevel = 2 /\ ZeroTidal /\ ZeroFluxAtInput) =>
    \/ pc \in {"start", "iter_top"}
    \/ /\ pc = "returned"
       /\ ret.line = 561
       /\ ret.flag_converge = 2
       /\ ret.temp = par.temp
       /\ its = 0
       /\ calls = 1

InRangeProfile(tp) == \A j \in DOMAIN tp : Ge(tp[j], par.tmin) /\ Le(tp[j], par.tmax)

\* the residual of every level is T - target for a target within [tmin, tmax],
\* and the zone map is one radiative zone down to the last level
LinearRadiative ==
  /\ par.engine.phi = Uniform(par.nlevel, "linear")
  /\ par.engine.M = Diagonal(par.nlevel)
  /\ par.rfaci = One
  /\ par.rfacv = One
  /\ InRangeProfile([k \in 0..(par.nlevel - 1) |->
                       Sub(Sub(par.engine.off[k], par.engine.vis), par.tidal[k])])
  /\ nstr = Radiative(par.nlevel)

Left == pc \in {"returned", "raised", "undefined"}

\* C5: with residuals proportional to T - target and one fully radiative zone,
\* t_start started from a profile within [tmin, tmax] (and given the iterations
\* it asks for) leaves by a return with status 2, every residual of the
\* returned profile below tolf, after fewer than 50 outer iterations.
C5_LinearConverges ==
  (LinearRadiative /\ InRangeProfile(par.temp) /\ par.it_max = ItMax /\ Left) =>
    /\ pc = "returned"
    /\ ret.flag_converge = 2
    /\ \A k \in 0..(par.nlevel - 1) : Lt(Abs(TotalFlux(ret.temp, k)), tolf)
    /\ its < 50

ZeroRowAt(a, i, n) == \A j \in 0..(n - 1) : ~Gt(Abs(a[i][j]), Zero)

ZeroRow(a, n) == \E i \in 0..(n - 1) : ZeroRowAt(a, i, n)

\* C7: lu_decomp raises "Singular matrix" exactly when some row of the active
\* n x n block has maximum magnitude zero, and then no entry of the matrix has
\* changed; in t_start the linear solve raises exactly then, with the Jacobian
\* as it was, and the exception leaves t_start: nothing is returned and no step
\* follows.
C7_SingularRaised ==
  [][/\ pc = "lu_call" =>
          /\ (ret'.status = "singular") <=> ZeroRow(ret.a, args.n)
          /\ ret'.status = "singular" => (ret'.a = ret.a /\ pc' = "lu_raised")
     /\ pc = "solve" =>
          /\ (err' = "ValueError") <=> ZeroRow(A, n_total)
          /\ err' = "ValueError" => (A' = A /\ pc' = "raised" /\ ret' = NoReturn)
     /\ pc \in {"raised", "lu_raised"} => (pc' = pc /\ err' = err /\ ret' = ret)]_vars

\* t_start left by the ValueError of a Jacobian with a zero row and a nonzero one
C7_Witness ==
  /\ pc = "raised"
  /\ err = "ValueError"
  /\ ret = NoReturn
  /\ ZeroRow(A, n_total)
  /\ \E i \in 0..(n_total - 1) : ~ZeroRowAt(A, i, n_total)

\* the same raised by lu_decomp called on its own
C7_WitnessLu ==
  /\ pc = "lu_raised"
  /\ ret.status = "singular"
  /\ ret.a = args.a
  /\ ZeroRowAt(args.a, args.n - 1, args.n)
  /\ ~ZeroRowAt(args.a, 0, args.n)

\* C8: where the profile of a line-search trial holds a NaN, the trial ends with
\* the profile replaced by temp_old + 0.5 at every level (temp_old being the
\* snapshot of the start of the outer iteration), the status 1 and the line
\* search left, nothing raised; the outer iteration then ends without a return
\* and the loop goes on to the next iteration or to the it_max exit.
C8_NanGuard ==
  [][/\ (pc = "trial_decide" /\ HasNaN(temp)) =>
          /\ temp' = [j \in DOMAIN temp_old |-> Add(temp_old[j], Half)]
          /\ flag_converge' = 1
          /\ pc' = "end_iter"
          /\ err' = "none"
          /\ temp_old' = temp_old
     /\ (pc = "iter_top" /\ pc' \notin {"returned", "raised"}) => temp_old' = temp
     /\ (pc \in {"jacobian", "solve", "trial_update", "trial_flux"}) => temp_old' = temp_old
     /\ (pc = "end_iter" /\ flag_converge = 1) =>
          /\ pc' = IF its + 1 < par.it_max THEN "iter_top" ELSE "exhausted"
          /\ its' = its + 1
          /\ ret' = NoReturn
          /\ err' = "none"
          /\ temp' = temp]_vars

\* the guard has acted: the iteration ends with temp_old + 0.5 and status 1
\* although the residual of the trial is NaN
C8_Witness ==
  /\ pc = "end_iter"
  /\ flag_converge = 1
  /\ HasNaN(f_vec)
  /\ ~HasNaN(temp_old)
  /\ temp = [j \in DOMAIN temp_old |-> Add(temp_old[j], Half)]

\* C9: the profile of every line-search trial, as handed to the flux engine, has
\* every level within [tmin, tmax], the damper having set what the update put
\* below tmin to tmin + 0.1 and what it put above tmax to tmax - 0.1.
C9_Clamped == pc = "trial_flux" => InRangeProfile(temp)

(***************************************************************************)
(* Properties of did_grad_cp outside the table                             *)
(***************************************************************************)
Below(table, v) == Lt(v, table[0])

Above(table, v, len) == Gt(v, table[len - 1])

\* the nearest table value for a value outside the axis, the value itself inside
Nearest(table, v, len) ==
  IF Below(table, v) THEN table[0] ELSE IF Above(table, v, len) THEN table[len - 1] ELSE v

\* the factor of an axis is 0 below the first node and 1 above the last
BoundaryFactor(table, v, len, fact) ==
  /\ Below(table, v) => fact = Zero
  /\ Above(table, v, len) => fact = One

SameAsAt(lt, lp) ==
  /\ ret.grad_x = did_grad_cp(Pow10(lt), Pow10(lp), t_table, p_table, grad, cp).grad_x
  /\ ret.cp_x = did_grad_cp(Pow10(lt), Pow10(lp), t_table, p_table, grad, cp).cp_x

OutOfTable(lt, lp) ==
  \/ Below(t_table, lt)
  \/ Above(t_table, lt, NT_TABLE)
  \/ Below(p_table, lp)
  \/ Above(p_table, lp, NP_TABLE)

\* C11: for a query below the first or above the last table value on an axis,
\* did_grad_cp uses the blend factor 0 (below) or 1 (above) on that axis and
\* returns what it returns at the nearest boundary value of that axis; on every
\* input, NaN included, both blend factors lie in [0, 1] and the four corners
\* read, (pos_t, pos_p) to (pos_t + 1, pos_p + 1), lie inside the 53 x 26 table.
C11_OutOfRange ==
  pc = "did_grad_cp_done" =>
    /\ BoundaryFactor(t_table, Log10(args.t), NT_TABLE, ret.factkt)
    /\ BoundaryFactor(p_table, Log10(args.p), NP_TABLE, ret.factkp)
    /\ OutOfTable(Log10(args.t), Log10(args.p)) =>
         SameAsAt(Nearest(t_table, Log10(args.t), NT_TABLE),
                  Nearest(p_table, Log10(args.p), NP_TABLE))
    /\ Ge(ret.factkt, Zero) /\ Le(ret.factkt, One)
    /\ Ge(ret.factkp, Zero) /\ Le(ret.factkp, One)
    /\ ret.pos_t \in 0..(53 - 2)
    /\ ret.pos_p \in 0..(26 - 2)

\* a query above the last temperature and below the first pressure: the value
\* of the corner (52, 0) of the table
C11_Witness ==
  /\ pc = "did_grad_cp_done"
  /\ Above(t_table, Log10(args.t), NT_TABLE)
  /\ Below(p_table, Log10(args.p))
  /\ ret.factkt = One
  /\ ret.factkp = Zero
  /\ ret.pos_t = 51
  /\ ret.grad_x = grad[52][0]


(***************************************************************************)
(* The ZoneMap under growup and growdown.                                  *)
(***************************************************************************)
\* the triple of zone z: top of the radiative region, top and bottom of the
\* convective zone
Triple(zmap, z) == <<zmap[3 * z - 3], zmap[3 * z - 2], zmap[3 * z - 1]>>

NonDecreasing(tr) == tr[1] <= tr[2] /\ tr[2] <= tr[3]

InLevels(tr, nlevel) == \A i \in 1..3 : tr[i] \in 0..(nlevel - 1)

\* zone z ends no lower than zone z + 1 begins
NotOverlapping(zmap, z) == zmap[3 * z - 1] <= zmap[3 * z]

ZoneMapInvariant(zmap, nzones, nlevel) ==
  /\ \A z \in 1..nzones : NonDecreasing(Triple(zmap, z)) /\ InLevels(Triple(zmap, z), nlevel)
  /\ \A z \in 1..(nzones - 1) : NotOverlapping(zmap, z)

\* C12: a ZoneMap that satisfies the invariant (triples non-decreasing,
\* boundaries in [0, nlevel-1], consecutive zones not overlapping) satisfies
\* it after every sequence of growup and growdown calls with a zone index
\* in 1..MaxZone and a level count >= 0.
C12_ZoneMapInvariant == pc = "zone" => ZoneMapInvariant(nstr, MaxZone, ZoneLevels)

\* the start maps satisfy the invariant
C12_StartValid ==
  (pc = "zone" /\ hist = <<>>) => ZoneMapInvariant(nstr, MaxZone, ZoneLevels)

\* one growup call on a valid map that leaves the levels
C12_GrowUpLeaves ==
  /\ pc = "zone"
  /\ Len(hist) = 1
  /\ hist[1].op = "growup"
  /\ ZoneMapInvariant(hist[1].before, MaxZone, ZoneLevels)
  /\ nstr[3 * hist[1].nlv - 2] < 0

\* one growdown call on a valid map after which two zones overlap
C12_GrowDownOverlaps ==
  /\ pc = "zone"
  /\ Len(hist) = 1
  /\ hist[1].op = "growdown"
  /\ hist[1].nlv = 1
  /\ ZoneMapInvariant(hist[1].before, MaxZone, ZoneLevels)
  /\ InRange(nstr)
  /\ ~NonDecreasing(Triple(nstr, 2))

(***************************************************************************)
(* The arguments t_start leaves alone.                                     *)
(***************************************************************************)
InTStart ==
  pc \in {"start", "iter_top", "jacobian", "solve", "trial_update", "trial_flux",
          "trial_decide", "end_iter", "exhausted", "returned", "raised", "undefined"}

C13_WitnessFast == pc = "returned" /\ ret.line = 561 /\ pressure = par.pressure

C13_WitnessExhausted ==
  pc = "returned" /\ ret.line = 1009 /\ temp # par.temp /\ pressure = par.pressure

(***************************************************************************)
(* The root test at the top of an outer iteration.                         *)
(***************************************************************************)
\* the largest abs(f_vec[i]) of the residual just assembled, over abs(tidal[0])
RelativeResidual == Div(MaxAbs(f_vec', 0, n_total', Zero), Abs(par.tidal[0]))

AtRoot == Lt(RelativeResidual, Mul(Hundredth, tolf))

\* the return of line 561: status 2, the profile the iteration began with, no
\* call of the flux engine, no new Jacobian, no new step
ReturnsAtRoot ==
  /\ pc' = "returned"
  /\ ret'.line = 561
  /\ ret'.flag_converge = 2
  /\ ret'.temp = temp
  /\ calls' = calls
  /\ A' = A
  /\ p' = p

TowardsJacobian == pc' = "jacobian"

\* C14: at the top of every outer iteration, if the largest absolute residual
\* over abs(tidal[0]) is below 0.01 * tolf, t_start returns at once with
\* status 2 and the profile the iteration began with, without a flux-engine
\* call, a Jacobian or a linear solve; otherwise it goes on to the Jacobian.
C14_RootTest ==
  [][pc = "iter_top" => IF AtRoot THEN ReturnsAtRoot ELSE TowardsJacobian]_vars

\* the same where tidal[0] is not zero
C14_RootTestNonzeroTidal ==
  [][(pc = "iter_top" /\ ~IsZero(par.tidal[0])) =>
       IF AtRoot THEN ReturnsAtRoot ELSE TowardsJacobian]_vars

\* the top of an iteration with tidal[0] = 0 has raised
C14_ZeroTidalRaised ==
  pc = "raised" /\ err = "ZeroDivisionError" /\ IsZero(par.tidal[0]) /\ its = 0 /\ calls = 1

\* the return of the root test in a second or later iteration
C14_LaterRoot == pc = "returned" /\ ret.line = 561 /\ its > 0

(***************************************************************************)
(* The verdict after a trial with alam < alamin.                           *)
(***************************************************************************)
\* a trial that ends the line search on the small step, with a residual that
\* is not below tolf
SmallStep ==
  /\ pc = "trial_decide"
  /\ Lt(alam, alamin)
  /\ ~Lt(MaxAbs(f_vec, 0, n_total, Zero), tolf)

\* the largest abs(g[i]) * v[i] / max(f, 0.5 * n_total)
Stationarity(v) == MaxGrad(g, v, Max(f, Mul(Half, Int2Num(n_total))), 0, n_total, Zero)

Stationary == Lt(Stationarity(p), tolmin)

\* C15: where the line search ends with alam < alamin and the largest
\* absolute residual is not below tolf, the status is 2 only if the largest
\* abs(g[i]) * p[i] / max(f, 0.5 * n_total) is below tolmin.
C15_SmallStepVerdict == [][(SmallStep /\ flag_converge' = 2) => Stationary]_vars

\* as the code has it: such a trial always ends with status 2, or with the
\* escape of the NaN guard
C15_SmallStepAlwaysConverged ==
  [][SmallStep => (flag_converge' = 2 \/ (HasNaN(temp) /\ flag_converge' = 1))]_vars

\* status 2 from the small step with neither the quantity of the claim nor
\* that of line 1033 (with dflux for p) below tolmin
C15_NotStationary ==
  /\ pc = "end_iter"
  /\ flag_converge = 2
  /\ Lt(alam, alamin)
  /\ ~Lt(MaxAbs(f_vec, 0, n_total, Zero), tolf)
  /\ Ge(Stationarity(p), tolmin)
  /\ Ge(Stationarity(dflux), tolmin)
  /\ ~check

(***************************************************************************)
(* The limit on the length of the Newton step.                             *)
(***************************************************************************)
\* 0.01 * max(sqrt(sum of temp_old[i]^2 over the solved levels), n_total)
ProfileCap ==
  Mul(step_max0, Max(Sqrt(Dot(temp_old, temp_old, 0, n_total, Zero)), Int2Num(n_total)))

\* the length of the step as line 750 takes it, entries 2..n_total-1
StepNorm(v) == Sqrt(Dot(v, v, 2, n_total, Zero))

\* C16: in every outer iteration, the first and the later ones alike, the
\* limit applied to the length of the Newton step is
\* 0.01 * max(sqrt(sum of squared temperatures), n_total) of the profile of
\* that iteration, whatever number of iterations ran before.
C16_StepCap == pc = "solve" => Eq(step_max, ProfileCap)

\* the same for the first outer iteration alone
C16_FirstStepCap == (pc = "solve" /\ its = 0) => Eq(step_max, ProfileCap)

\* as the code has it: the limit of an iteration is that of the iteration
\* before times max(sqrt(sum of squared temperatures), n_total)
C16_Compounded ==
  [][(pc = "iter_top" /\ pc' \in {"jacobian", "solve"}) =>
       Eq(step_max', Mul(step_max, Max(Sqrt(Dot(temp, temp, 0, n_total', Zero)),
                                       Int2Num(n_total'))))]_vars

\* after the scaling of lines 756-760 the length of the step is at most the
\* limit the code holds, up to the rounding of the arithmetic
C16_Scaled ==
  [][(pc = "solve" /\ pc' = "trial_update") =>
       Le(StepNorm(p'), Mul(step_max, Add(One, Div(One, Int2Num(1000)))))]_vars

\* a step that was scaled down
C16_ScaledStep ==
  /\ pc = "trial_update"
  /\ Eq(alam, One)
  /\ flag_converge = 0
  /\ n_total > 2
  /\ ~Eq(p[2], Neg(f_vec[2]))
  /\ \A i \in 0..(n_total - 1) : Eq(dflux[i], Neg(p[i]))

\* the second outer iteration with a limit above that of its profile
C16_SecondIteration == pc = "solve" /\ its = 1 /\ Gt(step_max, ProfileCap)

(***************************************************************************)
(* The step length after a rejected trial.                                 *)
(***************************************************************************)
\* a trial that is neither taken on the small step nor on the decrease of f
Rejected ==
  /\ pc = "trial_decide"
  /\ ~Lt(alam, alamin)
  /\ ~Le(f, Add(f_old, Mul(Mul(alf, alam), slope)))

\* a rejected trial after which lines 977-980 have set the next step length
BacktrackingStep == Rejected /\ pc' # "raised"

Between(lo, x, hi) == Le(lo, x) /\ Le(x, hi)

\* C17: after every backtracking step, the first (quadratic) and the later
\* (cubic) ones, 0.1 * alam <= alam_new <= 0.5 * alam, alam the step length
\* of the rejected trial.
C17_StepBounds ==
  [][BacktrackingStep => Between(Mul(Tenth, alam), alam', Mul(Half, alam))]_vars

\* the same for the trials after the first of a line search
C17_CubicBounds ==
  [][(BacktrackingStep /\ ~Eq(alam, One) /\ ~IsNaN(alam')) =>
       Between(Mul(Tenth, alam), alam', Mul(Half, alam))]_vars

\* the lower bound alone
C17_LowerBound ==
  [][(BacktrackingStep /\ ~IsNaN(alam')) => Le(Mul(Tenth, alam), alam')]_vars

\* a first trial rejected with slope > 0 whose quadratic step is the full step
C17_FullStepKept ==
  pc = "trial_update" /\ Gt(slope, Zero) /\ Eq(tmplam, One) /\ Eq(alam, One) /\ Gt(f, f_old)

(***************************************************************************)
(* The ways out of a line-search trial.                                    *)
(***************************************************************************)
Armijo == Le(f, Add(f_old, Mul(Mul(alf, alam), slope)))

\* a trial the claim says is retried: alam >= alamin, a finite profile and
\* f above the Armijo bound
Insufficient ==
  /\ pc = "trial_decide"
  /\ Ge(alam, alamin)
  /\ ~HasNaN(temp)
  /\ Gt(f, Add(f_old, Mul(Mul(alf, alam), slope)))

\* the trial ends the inner loop
EndsSearch == pc = "trial_decide" /\ pc' = "end_iter"

\* the verdict is that of the small-step path of check_convergence, which is
\* 2 whatever the change of the profile
SmallStepTaken == flag_converge' = 2

\* the next trial, with another step length
Retried == pc' = "trial_update" /\ flag_converge' = 0 /\ ~Eq(alam', alam)

\* C18: a trial ends the inner loop only on alam < alamin (tested first, the
\* small-step accept), else on the Armijo condition, or on the NaN guard; a
\* trial with alam >= alamin, finite temperatures and f above the Armijo
\* bound is never accepted and is always followed by another trial with a
\* new alam.
C18_TrialOutcomes ==
  [][/\ EndsSearch => (Lt(alam, alamin) \/ Armijo \/ HasNaN(temp))
     /\ (EndsSearch /\ Lt(alam, alamin) /\ ~HasNaN(temp)) => SmallStepTaken
     /\ Insufficient => Retried]_vars

\* the three ways out alone
C18_ExitsOnly ==
  [][/\ EndsSearch => (Lt(alam, alamin) \/ Armijo \/ HasNaN(temp))
     /\ (EndsSearch /\ Lt(alam, alamin) /\ ~HasNaN(temp)) => SmallStepTaken]_vars

\* such a trial is never accepted
C18_NeverAccepted == [][Insufficient => pc' # "end_iter"]_vars

\* it is retried with a shorter step where the step goes downhill
C18_DownhillRetried == [][(Insufficient /\ Lt(slope, Zero)) => (Retried /\ Lt(alam', alam))]_vars

\* the failing trials: the step length kept, the division by zero
C18_SameStep == pc = "trial_update" /\ alam2 = alam /\ Gt(f, f_old) /\ Gt(slope, Zero)

C18_Raised ==
  pc = "raised" /\ err = "ZeroDivisionError" /\ Eq(alam, One) /\ Eq(f, Add(f_old, slope))
    /\ Gt(slope, Zero) /\ ~HasNaN(temp)

(***************************************************************************)
(* Termination of t_start.                                                 *)
(***************************************************************************)
Ended == pc \in {"returned", "raised", "undefined"}

\* C19: every call of t_start terminates: the outer loop runs at most it_max
\* times and every line search exits after finitely many trials, for every
\* slope, f and f_old, slope >= 0 included.
C19_Terminates == <>Ended

\* the outer loop runs at most it_max times
C19_OuterBounded == InTStart => its <= par.it_max

\* a call whose steps never go uphill terminates
C19_DownhillTerminates == <>(Ended \/ (pc = "trial_update" /\ Gt(slope, Zero)))

\* a line search of more trials than any that ends in the calls explored
C19_StillSearching ==
  pc = "trial_update" /\ calls = MaxCalls /\ Eq(alam, One) /\ Gt(slope, Zero) /\ its = 0

(***************************************************************************)
(* The verdict of check_convergence on the change of the profile.          *)
(***************************************************************************)
\* the levels t_start solves for: the radiative levels of every zone
RadiativeLevels(zmap, nofczns) ==
  UNION {(zmap[3 * z] + (IF z = 0 THEN 0 ELSE 1))..zmap[3 * z + 1] : z \in 0..(nofczns - 1)}

RelativeChange(i) == Div(Abs(Sub(temp[i], temp_old[i])), temp_old[i])

\* an accepted trial that fails the residual test, not on the small-step
\* path, on which check_convergence returns
ChangeTested ==
  /\ pc = "trial_decide"
  /\ ~Lt(alam, alamin)
  /\ ~check
  /\ Armijo
  /\ ~Lt(MaxAbs(f_vec, 0, n_total, Zero), tolf)
  /\ ~HasNaN(temp)
  /\ pc' = "end_iter"

\* C20: when an accepted step fails the residual test and the small-step
\* path was not taken, check_convergence returns 2 if and only if the
\* largest |T_new - T_old| / T_old over the radiative (solved) levels of
\* every zone of the ZoneMap is below tolx, and returns 1 otherwise.
C20_ChangeVerdict ==
  [][ChangeTested =>
       flag_converge' = IF \A i \in RadiativeLevels(nstr, par.nofczns) : Lt(RelativeChange(i), tolx)
                          THEN 2 ELSE 1]_vars

\* the same where the map is one zone from level 0 on
C20_OneZoneVerdict ==
  [][(ChangeTested /\ par.nofczns = 1 /\ nstr[0] = 0) =>
       flag_converge' = IF \A i \in RadiativeLevels(nstr, par.nofczns) : Lt(RelativeChange(i), tolx)
                          THEN 2 ELSE 1]_vars

\* the levels lines 1048-1051 compare: the first n_total of the profile
C20_FirstLevelsVerdict ==
  [][ChangeTested =>
       flag_converge' = IF \A i \in 0..(n_total - 1) : Lt(RelativeChange(i), tolx) THEN 2 ELSE 1]_vars

\* a step of two zones that is not converged although no solved level
\* changed by tolx
C20_Unsolved ==
  /\ pc = "end_iter"
  /\ par.nofczns = 2
  /\ flag_converge = 1
  /\ ~check
  /\ Ge(alam, alamin)
  /\ \A i \in RadiativeLevels(nstr, par.nofczns) : Lt(RelativeChange(i), tolx)
  /\ \E i \in 0..(n_total - 1) : Ge(RelativeChange(i), tolx)

\* the verdict 1 with one zone
C20_OneZoneContinues ==
  /\ pc = "end_iter" /\ par.nofczns = 1 /\ flag_converge = 1 /\ ~check /\ Ge(alam, alamin)
  /\ ~Lt(MaxAbs(f_vec, 0, n_total, Zero), tolf) /\ ~HasNaN(temp)

(***************************************************************************)
(* The level-to-index mapping of the residual vector.                      *)
(***************************************************************************)
Written(fv) == {k \in DOMAIN fv : ~IsNaN(fv[k])}

\* the k-th radiative level, counted from 0
RadiativeAt(levels, k) ==
  CHOOSE l \in levels : Cardinality({m \in levels : m < l}) = k

\* f_vec as the claim has it: the level flux of the top of the atmosphere
\* at index 0, the layer-midpoint flux of its level at every other index
Compact(fv, levels, top) ==
  /\ Written(fv) = 0..(Cardinality(levels) - 1)
  /\ \A k \in Written(fv) :
       fv[k] = IF RadiativeAt(levels, k) = top THEN LevelFluxes[top]
               ELSE MidptFluxes[RadiativeAt(levels, k) - 1]

ValidMap == ZoneMapInvariant(nstr, args.nofczns, AsmLevels)

\* C21: for every ZoneMap satisfying the invariant and every zone count, the
\* residual assembly writes each index of 0..n_total-1 exactly once and no
\* other, n_total is the number of radiative levels, index 0 takes the level
\* flux at the top of the atmosphere and every other index the layer-midpoint
\* flux of its level; the reassembly of the line search uses the same
\* mapping.
C21_CompactResidual ==
  /\ (pc \in {"assembled", "reassembled"} /\ ValidMap) =>
       /\ ret.base.n_total = Cardinality(RadiativeLevels(nstr, args.nofczns))
       /\ Compact(ret.base.f_vec, RadiativeLevels(nstr, args.nofczns), nstr[0])
  /\ (pc = "reassembled" /\ ValidMap) => ret.trial.f_vec = ret.base.f_vec

\* the maps on which the code is compact: the top of the atmosphere at
\* level 0, a convective zone of at least one level, and the second zone
\* beginning on the bottom entry of the first with a radiative level of its
\* own
Adjoining ==
  /\ ValidMap
  /\ nstr[0] = 0
  /\ args.nofczns = 2 => (nstr[3] = nstr[2] /\ nstr[2] > nstr[1] /\ nstr[4] > nstr[3])

C21_AdjoiningCompact ==
  /\ (pc \in {"assembled", "reassembled"} /\ Adjoining) =>
       /\ ret.base.n_total = Cardinality(RadiativeLevels(nstr, args.nofczns))
       /\ Compact(ret.base.f_vec, RadiativeLevels(nstr, args.nofczns), nstr[0])
  /\ (pc = "reassembled" /\ Adjoining) => ret.trial.f_vec = ret.base.f_vec

\* a valid map of two zones with an index outside 0..n_total-1 written
C21_Gap ==
  /\ pc = "assembled"
  /\ ValidMap
  /\ args.nofczns = 2
  /\ nstr[0] = 0
  /\ nstr[3] = nstr[2] + 1
  /\ \E k \in Written(ret.base.f_vec) : k >= ret.base.n_total

\* a valid map of one zone with index 1 left out
C21_LowTop ==
  /\ pc = "assembled"
  /\ ValidMap
  /\ args.nofczns = 1
  /\ nstr[0] = 1
  /\ ret.base.n_total >= 2
  /\ 1 \notin Written(ret.base.f_vec)

(***************************************************************************)
(* The entries of A that the Jacobian construction writes.                 *)
(***************************************************************************)
WrittenEntries(a) == {rc \in (DOMAIN a) \X (DOMAIN Blank) : ~IsNaN(a[rc[1]][rc[2]])}

Block(n) == (0..(n - 1)) \X (0..(n - 1))

\* C22: in every outer iteration the Jacobian construction writes every
\* entry (r, c) with 0 <= r, c < n_total of A and no entry outside that
\* block, so that the solve reads no entry the factorisation of the
\* iteration before left in A.
C22_BlockWritten ==
  (pc = "filled" /\ ValidMap) => WrittenEntries(ret.A) = Block(ret.base.n_total)

\* the same on the maps on which the residual vector is compact
C22_AdjoiningBlock ==
  (pc = "filled" /\ Adjoining) => WrittenEntries(ret.A) = Block(ret.base.n_total)

\* a valid map of two zones: entries outside the block written, entries
\* inside it not
C22_OffBlock ==
  /\ pc = "filled"
  /\ ValidMap
  /\ args.nofczns = 2
  /\ nstr[0] = 0
  /\ nstr[3] = nstr[2] + 1
  /\ WrittenEntries(ret.A) \ Block(ret.base.n_total) # {}
  /\ Block(ret.base.n_total) \ WrittenEntries(ret.A) # {}

\* a block of three rows written in full
C22_FullBlock ==
  pc = "filled" /\ Adjoining /\ args.nofczns = 2 /\ ret.base.n_total = 3
    /\ WrittenEntries(ret.A) = Block(3)

\* g is A^T * f_vec of the Jacobian as it was built, not of its factors
C22_GradientFromJacobian ==
  [][(pc = "solve" /\ pc' = "trial_update") =>
       \A i \in 0..(n_total - 1) : g'[i] = ColDot(A, f_vec, i, 0, n_total, Zero)]_vars

\* ---------------------------------------------------------------------------
\* Flux-engine invocations of one Jacobian construction (lines 591-650).

\* C23: when the first Jacobian construction of a call is finished, the flux
\* engine has been invoked once for the base flux and exactly once per
\* radiative level, n_total times, whether do_holes is on or off.
C23_OncePerLevel == (pc = "solve" /\ its = 0) => calls = 1 + n_total

\* C23, clear-sky part: with do_holes off the first Jacobian construction
\* makes exactly n_total thermal-only invocations.
C23_OncePerLevelClear == (pc = "solve" /\ its = 0 /\ ~par.do_holes) => calls = 1 + n_total

\* C23, per step: with do_holes off every perturbed level costs one invocation.
C23_OneCallPerColumn == [][(pc = "jacobian" /\ ~par.do_holes /\ calls < MaxCalls) => calls' = calls + 1]_vars

\* A finished first Jacobian construction in patchy-cloud mode: every
\* radiative level was evaluated twice, the first result discarded.
C23_TwicePerLevel == pc = "solve" /\ its = 0 /\ par.do_holes /\ n_total > 0 /\ calls = 1 + 2 * n_total

\* A finished first Jacobian construction with do_holes off.
C23_ClearBuilt == pc = "solve" /\ its = 0 /\ ~par.do_holes /\ n_total > 1 /\ calls = 1 + n_total

\* ---------------------------------------------------------------------------
\* The two profile reconstructions (lines 604-633 and 816-848).

SameRadiative == \A j \in 0..nstr[1] : ret.jac[j] = ret.search[j]

ConvectiveOf(zmap) == (zmap[1] + 1)..(zmap[2] + 1)

\* C24: given the same temperatures on the radiative levels, the
\* reconstruction of the Jacobian build and the one of the line search
\* give the same temperature at every convective level.
C24_SameConvective ==
  pc = "search_rebuilt" => \A j \in ConvectiveOf(nstr) : ret.jac[j] = ret.search[j]

\* C24, first level: the first convective level of the zone, whose gradient
\* both reconstructions take at the radiative level above it, is the same.
C24_SameFirstConvective ==
  pc = "search_rebuilt" => SameRadiative /\ ret.jac[nstr[1] + 1] = ret.search[nstr[1] + 1]

\* C24, line search: each convective level follows the adiabat from the
\* reconstructed level above it, the gradient taken at that same temperature.
C24_SearchAlongAdiabat ==
  pc = "search_rebuilt" =>
    \A j \in ConvectiveOf(nstr) :
      ret.search[j] = Adiabat(ret.search[j - 1], ret.search[j - 1], Decades(RebLevels), j)

\* C24, Jacobian: each convective level follows the adiabat from the
\* reconstructed level above it, the gradient taken at the unreconstructed
\* beta of that level.
C24_JacobianGradientAtBeta ==
  pc = "search_rebuilt" =>
    \A j \in ConvectiveOf(nstr) :
      ret.jac[j] = Adiabat(ret.jac[j - 1],
                           IF j - 1 = args.jm THEN Add(args.beta[j - 1], args.del_t)
                           ELSE args.beta[j - 1],
                           Decades(RebLevels), j)

\* two convective levels, the second of which differs between the two
C24_SecondDiffers ==
  /\ pc = "search_rebuilt"
  /\ SameRadiative
  /\ nstr[2] > nstr[1]
  /\ ret.jac[nstr[1] + 1] = ret.search[nstr[1] + 1]
  /\ ~IsNaN(ret.jac[nstr[1] + 2]) /\ ~IsNaN(ret.search[nstr[1] + 2])
  /\ ret.jac[nstr[1] + 2] # ret.search[nstr[1] + 2]

\* a zone with a single convective level, the same in both
C24_OneLevelSame ==
  /\ pc = "search_rebuilt"
  /\ nstr[2] = nstr[1]
  /\ ~IsNaN(ret.jac[nstr[1] + 1])
  /\ ret.jac[nstr[1] + 1] = ret.search[nstr[1] + 1]

\* ---------------------------------------------------------------------------
\* The entries growup and growdown change (lines 1063-1087).

\* the entries of the zone z: the top of its radiative region, the top and the
\* bottom of its convective region
RadiativeTop(z) == 3 * (z - 1)

ConvectiveTop(z) == 3 * (z - 1) + 1

ConvectiveBottomOf(z) == 3 * (z - 1) + 2

\* nstr is args.before with n added to the entries of S
Moved(S, n) ==
  /\ DOMAIN nstr = DOMAIN args.before
  /\ \A i \in DOMAIN nstr : nstr[i] = IF i \in S THEN args.before[i] + n ELSE args.before[i]

\* C25: growup(z, nstr, n) lowers the convective-top entry of the zone z by
\* n and nothing else; growdown(z, nstr, n) raises the convective-bottom
\* entry of the zone z and the top entry of the next zone by n and nothing
\* else; for every zone nstr holds the entries assigned are entries of nstr.
C25_Frame ==
  pc = "grown" =>
    /\ ret \subseteq DOMAIN args.before
    /\ args.op = "growup" => Moved({ConvectiveTop(args.nlv)}, 0 - args.ngrow)
    /\ args.op = "growdown" =>
         Moved({ConvectiveBottomOf(args.nlv), RadiativeTop(args.nlv + 1)}, args.ngrow)

\* growdown on the last zone nstr holds, both entries raised
C25_LastZoneGrown ==
  /\ pc = "grown"
  /\ args.op = "growdown"
  /\ args.nlv = NstrLen \div 3
  /\ args.ngrow > 0
  /\ nstr[ConvectiveBottomOf(args.nlv)] = args.before[ConvectiveBottomOf(args.nlv)] + args.ngrow
  /\ nstr[RadiativeTop(args.nlv + 1)] = args.before[RadiativeTop(args.nlv + 1)] + args.ngrow

\* growup on the first zone, its convective top lowered
C25_FirstZoneRaised ==
  /\ pc = "grown"
  /\ args.op = "growup"
  /\ args.nlv = 1
  /\ args.ngrow > 0
  /\ nstr[1] = args.before[1] - args.ngrow

\* ---------------------------------------------------------------------------
\* The interpolation of did_grad_cp inside the table (lines 46-92).

\* the query lies between the first node and the last one, the last excluded
InsideAxis(table, len, q) == Le(table[0], q) /\ Lt(q, table[len - 1])

\* (q - x[j]) / (x[j+1] - x[j])
LinearFactor(table, q, j) == Div(Sub(q, table[j]), Sub(table[j + 1], table[j]))

\* the bilinear blend of the nodes around the cell (jt, jp) with linear factors
BilinearAt(tb, lt, lp, jt, jp) ==
  BlendWeights(LinearFactor(t_table, lt, jt), LinearFactor(p_table, lp, jp),
               Sub(One, LinearFactor(t_table, lt, jt)), Sub(One, LinearFactor(p_table, lp, jp)),
               tb, jt, jp)

Interpolated(lt, lp) ==
  Eq(ret.grad_x, BilinearAt(grad, lt, lp, locate(t_table, lt), locate(p_table, lp)))

\* C26: for every query inside the table on both axes, the first interval
\* included, did_grad_cp returns the bilinear blend of the four nodes around
\* it with the factor (q - x[j]) / (x[j+1] - x[j]) on each axis, j being the
\* index locate returns.
C26_BilinearEverywhere ==
  pc = "did_grad_cp_done" =>
    ((InsideAxis(t_table, NT_TABLE, Log10(args.t)) /\ InsideAxis(p_table, NP_TABLE, Log10(args.p)))
       => Interpolated(Log10(args.t), Log10(args.p)))

\* C26, past the first interval: where locate returns an index above 0 on
\* both axes the result is that bilinear blend.
C26_BilinearAboveFirst ==
  pc = "did_grad_cp_done" =>
    ((InsideAxis(t_table, NT_TABLE, Log10(args.t)) /\ InsideAxis(p_table, NP_TABLE, Log10(args.p))
      /\ locate(t_table, Log10(args.t)) > 0 /\ locate(p_table, Log10(args.p)) > 0)
       => Interpolated(Log10(args.t), Log10(args.p)))

\* C26, first interval: a query above the first node for which locate returns
\* 0 gets the factor 0 on that axis, the value at the first node.
C26_FirstIntervalFlat ==
  pc = "did_grad_cp_done" =>
    (locate(t_table, Log10(args.t)) = 0 => ret.factkt = Zero /\ ret.pos_t = 0)

\* a temperature strictly between the first two nodes, a pressure at a node
\* past the first: the result is the value of the first temperature node
C26_FirstIntervalNotBlended ==
  /\ pc = "did_grad_cp_done"
  /\ Lt(t_table[0], Log10(args.t)) /\ Lt(Log10(args.t), t_table[1])
  /\ Log10(args.p) = p_table[3]
  /\ ret.grad_x = grad[0][3]
  /\ ~Eq(ret.grad_x, BilinearAt(grad, Log10(args.t), Log10(args.p), 0, 3))

\* the middle of an interval past the first on both axes, blended by halves
C26_MiddleBlended ==
  /\ pc = "did_grad_cp_done"
  /\ locate(t_table, Log10(args.t)) = 4 /\ ret.factkt = Rat(1, 2)
  /\ locate(p_table, Log10(args.p)) = 2 /\ ret.factkp = Rat(1, 2)
  /\ Interpolated(Log10(args.t), Log10(args.p))

\* ---------------------------------------------------------------------------
\* What t_start returns (lines 556-561, 991-1001, 1003-1009).

\* the thermal net flux at the levels, of the layers, for the profile tp
ThermalLevels(tp) == climate(par.engine, tp, par.nlevel, FALSE).net_ir

ThermalLayers(tp) == climate(par.engine, tp, par.nlevel, FALSE).net_ir_layer

\* C27: on every return t_start returns as its fourth value the thermal net
\* flux at the levels for the profile it returns, and as its second value
\* the lapse rate of the profile it returns.
C27_LevelFluxOfReturned ==
  pc = "returned" =>
    /\ ret.flux = ThermalLevels(ret.temp)
    /\ ret.dtdp = Lapse(ret.temp, pressure, par.nlevel)

\* C27, the converged returns: after a line search, and at a root found by
\* the first iteration, the fourth value is the level flux of the returned
\* profile.
C27_ConvergedLevelFlux ==
  (pc = "returned" /\ (ret.line = 1001 \/ (ret.line = 561 /\ its = 0))) =>
    (ret.flag_converge = 2 /\ ret.flux = ThermalLevels(ret.temp))

\* a return of line 561 in a later iteration, after the escape of lines
\* 982-986: the fourth value is the flux of the profile that held a NaN
C27_StaleReturned ==
  /\ pc = "returned"
  /\ ret.line = 561
  /\ its > 0
  /\ ret.flux # ThermalLevels(ret.temp)

\* C27, the return after it_max iterations: the fourth value is the flux
\* array of the layers held at that moment.
C27_ExhaustedLayerFlux == (pc = "returned" /\ ret.line = 1009) => ret.flux = flux_net_ir_layer

\* C27, second value: the lapse rate of the returned profile on every return.
C27_LapseOfReturned == pc = "returned" => ret.dtdp = Lapse(ret.temp, pressure, par.nlevel)

\* a return of line 1009 with the layer flux of the returned profile, which
\* is not its level flux
C27_LayerReturned ==
  /\ pc = "returned"
  /\ ret.line = 1009
  /\ ret.flux = ThermalLayers(ret.temp)
  /\ ret.flux # ThermalLevels(ret.temp)

\* a return of line 1001 with the level flux of the returned profile
C27_LevelReturned ==
  /\ pc = "returned"
  /\ ret.line = 1001
  /\ ret.flux = ThermalLevels(ret.temp)
  /\ ret.flux # ThermalLayers(ret.temp)

\* ---------------------------------------------------------------------------
\* The fluxes held at the top of an outer iteration (lines 470-486, 553-561,
\* 858-881, 982-986).

\* the thermal flux arrays are those of the flux engine for the profile temp
FluxOfProfile ==
  /\ flux_net_ir = ThermalLevels(temp)
  /\ flux_net_ir_layer = ThermalLayers(temp)

\* C28: at the top of every outer iteration the thermal flux arrays are
\* those the flux engine gives for the profile held at that moment, and no
\* return with flag_converge = 2 is made for a profile whose flux was not
\* evaluated.
C28_FluxOfProfileHeld ==
  /\ pc = "iter_top" => FluxOfProfile
  /\ (pc = "returned" /\ ret.flag_converge = 2) => ret.flux = ThermalLevels(ret.temp)

\* C28, without the escape: at the top of an iteration whose flux arrays
\* hold no NaN, the first iteration included, the flux arrays are those of
\* the profile held.
C28_FluxHeldAfterSearch ==
  (pc = "iter_top" /\ ~HasNaN(flux_net_ir)) => FluxOfProfile

\* C28, the escape: a line search that leaves through lines 982-986 hands on
\* temp_old + 0.5 with the flux arrays of the profile that held the NaN.
C28_EscapeKeepsFlux ==
  [][(pc = "trial_decide" /\ HasNaN(temp) /\ pc' = "end_iter")
       => (/\ flux_net_ir' = flux_net_ir
           /\ flag_converge' = 1
           /\ \A j \in DOMAIN temp_old : temp'[j] = Add(temp_old[j], Half))]_vars

\* the top of the iteration after the escape: a profile without a NaN, flux
\* arrays that are not those of that profile
C28_StaleAtTop ==
  /\ pc = "iter_top"
  /\ its > 0
  /\ ~HasNaN(temp)
  /\ flux_net_ir # ThermalLevels(temp)

\* converged (2) returned by the root test for the profile temp_old + 0.5,
\* whose flux was never evaluated
C28_ConvergedUnevaluated ==
  /\ pc = "returned"
  /\ ret.flag_converge = 2
  /\ ret.line = 561
  /\ ~HasNaN(ret.temp)
  /\ HasNaN(ret.flux)
  /\ ~HasNaN(ThermalLevels(ret.temp))

\* the top of a second iteration reached through a line search that ended by
\* its own tests
C28_FreshAtTop ==
  /\ pc = "iter_top"
  /\ its > 0
  /\ FluxOfProfile

\* ---------------------------------------------------------------------------
\* The indices of temp and pressure (lines 619-633, 829-842, 850-856).

\* for j1 in range(nstr[nb+1] + 1, nstr[nb+2] + 1 + 1): temp[j1], temp[j1-1],
\* pressure[j1], pressure[j1-1], in the Jacobian build and in the line search
ConvectiveIndices(zmap, nofczns) ==
  UNION {{j1 - 1, j1} : j1 \in UNION {(zmap[3 * z + 1] + 1)..(zmap[3 * z + 2] + 1) :
                                       z \in 0..(nofczns - 1)}}

\* for j1 in range(n_top_r + 1, nlevel + 1): temp[j1]
ClampIndices(zmap, nlevel) == ((zmap[0] - 1) + 1)..nlevel

\* C29: on a map that satisfies the invariant, once a trial profile has been
\* rebuilt and clamped, every index of temp and pressure used by the
\* convective loops and by the clamping loop lies in 0..nlevel-1.
C29_IndicesInRange ==
  (pc = "trial_flux" /\ ZoneMapInvariant(nstr, par.nofczns, par.nlevel)) =>
    /\ ConvectiveIndices(nstr, par.nofczns) \subseteq 0..(par.nlevel - 1)
    /\ ClampIndices(nstr, par.nlevel) \subseteq 0..(par.nlevel - 1)

\* C29, convective loops: on a map that satisfies the invariant and whose
\* convective zones end above the last level, the indices of the convective
\* loops lie in 0..nlevel-1.
C29_ConvectiveInRange ==
  (/\ pc \in {"solve", "trial_flux"}
   /\ ZoneMapInvariant(nstr, par.nofczns, par.nlevel)
   /\ \A z \in 0..(par.nofczns - 1) : nstr[3 * z + 2] < par.nlevel - 1) =>
    ConvectiveIndices(nstr, par.nofczns) \subseteq 0..(par.nlevel - 1)

\* C29, clamping loop: its indices are the levels from the top of the first
\* zone down, and the cell after the last level.
C29_ClampPastEnd ==
  pc = "trial_flux" => ClampIndices(nstr, par.nlevel) = (nstr[0]..(par.nlevel - 1)) \cup {par.nlevel}

\* a clamped trial profile on a valid map with a convective zone: the loop
\* has used temp[nlevel], which the store of line 854 or 856 may have written
C29_PastEndWritten ==
  /\ pc = "trial_flux"
  /\ ZoneMapInvariant(nstr, par.nofczns, par.nlevel)
  /\ ConvectiveIndices(nstr, par.nofczns) # {}
  /\ ConvectiveIndices(nstr, par.nofczns) \subseteq 0..(par.nlevel - 1)
  /\ par.nlevel \in ClampIndices(nstr, par.nlevel)
  /\ past_end = "written"

\* a map that satisfies the invariant with a convective zone down to the
\* last level: the convective loops reach temp[nlevel] and pressure[nlevel]
C29_ConvectivePastEnd ==
  /\ pc = "assembled"
  /\ ValidMap
  /\ nstr[2] = AsmLevels - 1
  /\ AsmLevels \in ConvectiveIndices(nstr, args.nofczns)

\* ---------------------------------------------------------------------------
\* The branches of cpfunc (lines 1885-1902) and the index of polyAE (1905-1908).

Polynomial == {"above 2500", "1000 to 2500", "100 to 1000"}

\* C30: for every gas 9..25 and every temperature cpfunc takes one of the
\* three polynomial branches or the default, a temperature of at least
\* 100 K takes a polynomial branch, and the index handed to polyAE is an
\* index of the three-element coefficient lists.
C30_BranchAndIndex ==
  pc = "cpfunc_done" =>
    /\ ret.branch \in Polynomial \cup {"default"}
    /\ args.temp >= 100 => ret.branch \in Polynomial
    /\ ret.branch \in Polynomial => ret.it \in 0..(CoefLen - 1)

\* C30, the branches: one branch is taken; above 2500 K, strictly between
\* 1000 and 2500 K or at 2500 K, and from 100 K to below 1000 K it is the
\* polynomial branch of that range; below 100 K it is the default.
C30_BranchOfRange ==
  pc = "cpfunc_done" =>
    /\ ret.branch \in Polynomial \cup {"default"}
    /\ args.temp > 2500 => ret.branch = "above 2500"
    /\ (args.temp > 1000 /\ args.temp <= 2500) => ret.branch = "1000 to 2500"
    /\ (args.temp >= 100 /\ args.temp < 1000) => ret.branch = "100 to 1000"
    /\ args.temp < 100 => ret.branch = "default"

\* C30, the index: up to 2500 K the index handed to polyAE is 1 or 2, an
\* index of the lists.
C30_IndexUpTo2500 ==
  (pc = "cpfunc_done" /\ ret.branch \in Polynomial /\ args.temp <= 2500) =>
    (ret.it \in {1, 2} /\ ret.cp = "number")

\* exactly 1000 K: no polynomial branch, the default constant
C30_DefaultAt1000 ==
  /\ pc = "cpfunc_done"
  /\ args.temp = 1000
  /\ ret.branch = "default"

\* above 2500 K: polyAE reads element 3 of lists of three
C30_IndexPastEnd ==
  /\ pc = "cpfunc_done"
  /\ args.igas = LastGas
  /\ args.temp > 2500
  /\ ret.it = CoefLen
  /\ ret.cp = "garbage"

\* 500 K: the branch 100 to 1000 with an index of the lists
C30_LowBranch ==
  /\ pc = "cpfunc_done"
  /\ args.temp = 500
  /\ ret.branch = "100 to 1000"
  /\ ret.it = 1
====
